---------------------------- MODULE Spec2Model ----------------------------
(***************************************************************************)
(* A model of the expression engine of the trigonometric visualizer:       *)
(* src/lib/expression-evaluator.ts, class ExpressionEvaluator.             *)
(*                                                                         *)
(* Expression texts are TLA+ strings, read character by character, so the  *)
(* regular expressions of the validator and of the compiler are modelled   *)
(* by what they match, not by a token abstraction.  The JavaScript engine  *)
(* behind `new Function` is modelled by a tokenizer, a parser and an       *)
(* interpreter for the arithmetic fragment the input expressions use.      *)
(*                                                                         *)
(* The capacity of the caches, MAX_CACHE_SIZE (1000 in the source), is     *)
(* scaled down so that the states in which the caches are full are         *)
(* reachable.  The eviction share stays floor(MAX_CACHE_SIZE * 0.3), which *)
(* is at least 1 here as it is in the source.                              *)
(***************************************************************************)
EXTENDS Integers, Sequences, FiniteSets, TLC

(***************************************************************************)
(* Characters and character classes                                        *)
(***************************************************************************)

\* s[i] of JavaScript (1-based here); "" outside the string.
Ch(s, i) == IF i >= 1 /\ i <= Len(s) THEN SubSeq(s, i, i) ELSE ""

UpperLetters == "ABCDEFGHIJKLMNOPQRSTUVWXYZ"

LowerLetters == "abcdefghijklmnopqrstuvwxyz"

CharsOf(s) == {Ch(s, i) : i \in 1..Len(s)}

\* [a-zA-Z]
Letters == CharsOf(UpperLetters) \cup CharsOf(LowerLetters)

\* \d
Digits == CharsOf("0123456789")

\* \w
WordChars == Letters \cup Digits \cup {"_"}

\* [a-zA-Z_$]
IdStartChars == Letters \cup {"_", "$"}

\* [a-zA-Z0-9_$]
IdChars == IdStartChars \cup Digits

\* \s, and the characters String.prototype.trim removes
SpaceChars == {" ", "\t", "\n"}

\* [+\-*/^]
OperatorChars == {"+", "-", "*", "/", "^"}

\* the i flag: a character folded to lower case
ToLower(c) ==
  IF c \in Letters
       /\ \E i \in 1..Len(UpperLetters) : Ch(UpperLetters, i) = c
    THEN Ch(LowerLetters, CHOOSE i \in 1..Len(UpperLetters) : Ch(UpperLetters, i) = c)
    ELSE c

\* \b at position i: between s[i-1] and s[i], exactly one is a word character
WordBoundary(s, i) == (Ch(s, i - 1) \in WordChars) # (Ch(s, i) \in WordChars)

\* the literal lit at position i of s
LiteralAt(s, i, lit) ==
  /\ i >= 1
  /\ i + Len(lit) - 1 <= Len(s)
  /\ SubSeq(s, i, i + Len(lit) - 1) = lit

\* the literal lit at position i of s, under the i flag (lit is lower case)
LiteralAtNoCase(s, i, lit) ==
  /\ i >= 1
  /\ i + Len(lit) - 1 <= Len(s)
  /\ \A k \in 1..Len(lit) : ToLower(Ch(s, i + k - 1)) = Ch(lit, k)

\* the least and the greatest member of a non-empty set of integers
SetMin(S) == CHOOSE x \in S : \A y \in S : x <= y

SetMax(S) == CHOOSE x \in S : \A y \in S : y <= x

\* [chars]* from position i, greedy: the first position at or after i that
\* holds no character of chars
SkipChars(s, i, chars) ==
  IF i > Len(s) THEN i
  ELSE CHOOSE j \in i..(Len(s) + 1) :
         /\ \A k \in i..(j - 1) : Ch(s, k) \in chars
         /\ j = Len(s) + 1 \/ Ch(s, j) \notin chars

\* \s* from position i
SkipSpaces(s, i) == SkipChars(s, i, SpaceChars)

\* [a-zA-Z0-9_$]* from position i
SkipIdChars(s, i) == SkipChars(s, i, IdChars)

\* String.prototype.trim
Trim(s) ==
  LET kept == {i \in 1..Len(s) : Ch(s, i) \notin SpaceChars}
  IN  IF kept = {} THEN "" ELSE SubSeq(s, SetMin(kept), SetMax(kept))

\* the number of matches of /[chars]/g
CountChars(s, chars) == Cardinality({i \in 1..Len(s) : Ch(s, i) \in chars})

\* the members of a sequence, and a sequence without its repetitions
\* ([...new Set(xs)] keeps the first occurrence of each member)
Range(xs) == {xs[i] : i \in 1..Len(xs)}

RECURSIVE Dedupe(_)
Dedupe(xs) ==
  IF xs = <<>> THEN <<>>
  ELSE LET front == Dedupe(SubSeq(xs, 1, Len(xs) - 1))
           last  == xs[Len(xs)]
       IN  IF last \in Range(front) THEN front ELSE Append(front, last)


(***************************************************************************)
(* The allow-list registry and the limits of the evaluator                 *)
(***************************************************************************)

\* the own keys of the registry object
SAFE_MATH_FUNCTIONS ==
  { "sin", "cos", "tan", "asin", "acos", "atan", "atan2",
    "sinh", "cosh", "tanh", "asinh", "acosh", "atanh",
    "exp", "exp2", "expm1", "log", "log10", "log2", "log1p",
    "pow", "sqrt", "cbrt", "hypot",
    "abs", "sign", "floor", "ceil", "round", "trunc", "fround",
    "min", "max", "clamp",
    "fmod", "remainder", "gamma",
    "PI", "E", "LN2", "LN10", "LOG2E", "LOG10E", "SQRT1_2", "SQRT2",
    "TAU", "PHI", "DEG2RAD", "RAD2DEG" }

\* The registry is an object literal, so its prototype is Object.prototype:
\* these names are properties of it without being keys of it.
ObjectPrototypeKeys ==
  { "constructor", "toString", "toLocaleString", "valueOf", "hasOwnProperty",
    "isPrototypeOf", "propertyIsEnumerable", "__proto__",
    "__defineGetter__", "__defineSetter__", "__lookupGetter__", "__lookupSetter__" }

\* `name in SAFE_MATH_FUNCTIONS`: JavaScript's in operator looks a property up
\* along the prototype chain
InRegistry(name) == name \in SAFE_MATH_FUNCTIONS \cup ObjectPrototypeKeys

\* The capacity of each cache, 1000 in the class, scaled down so that a
\* run fills the caches; nothing but comparisons with the sizes and
\* Math.floor(MAX_CACHE_SIZE * 0.3) reads it.
MAX_CACHE_SIZE == 4

MAX_EXPRESSION_LENGTH == 2000

MAX_NESTING_DEPTH == 20

(***************************************************************************)
(* validateSyntax                                                          *)
(***************************************************************************)

\* count (and currentDepth) after the first i characters of the loop
ParenCount(s, i) ==
  CountChars(SubSeq(s, 1, i), {"("}) - CountChars(SubSeq(s, 1, i), {")"})

\* a test of the final count alone
hasEqualParentheses(expression) == ParenCount(expression, Len(expression)) = 0

\* false as soon as count is negative, else count === 0 at the end
hasBalancedParentheses(expression) ==
  /\ \A i \in {j \in 1..Len(expression) : Ch(expression, j) = ")"} :
       ParenCount(expression, i) >= 0
  /\ ParenCount(expression, Len(expression)) = 0

\* maxDepth: the greatest currentDepth right after a "("
calculateNestingDepth(expression) ==
  SetMax({0} \cup {ParenCount(expression, i) :
                     i \in {j \in 1..Len(expression) : Ch(expression, j) = "("}})

\* the five heuristic patterns of validateSyntax; any match gives one warning
invalidPatterns(s) ==
  \/ \E i \in 1..Len(s) : Ch(s, i) = ")" /\ Ch(s, SkipSpaces(s, i + 1)) = "("
  \/ \E i \in 1..Len(s) : Ch(s, i) \in Digits /\ Ch(s, SkipSpaces(s, i + 1)) \in Letters
  \/ \E i \in 1..Len(s) : Ch(s, i) \in OperatorChars /\ Ch(s, i + 1) \in OperatorChars
  \/ \E i \in 1..Len(s) : Ch(s, i) \in OperatorChars /\ SkipSpaces(s, i + 1) > Len(s)
  \/ Ch(s, SkipSpaces(s, 1)) \in {"*", "/", "^"}

\* a syntax check whose heuristic finding makes the text invalid
validateSyntaxStrict(expression, result) ==
  LET unbalanced == ~hasBalancedParentheses(expression)
      tooDeep    == calculateNestingDepth(expression) > MAX_NESTING_DEPTH
      r1 == IF unbalanced
              THEN [result EXCEPT !.errors = Append(@, "Unbalanced parentheses"),
                                  !.isValid = FALSE]
              ELSE result
      r2 == IF tooDeep
              THEN [r1 EXCEPT !.errors = Append(@, "Nesting too deep (max "
                                           \o ToString(MAX_NESTING_DEPTH) \o " levels)"),
                              !.isValid = FALSE]
              ELSE r1
  IN  IF invalidPatterns(expression)
        THEN [r2 EXCEPT !.warnings = Append(@, "Potentially invalid syntax detected"),
                        !.isValid = FALSE]
        ELSE r2

validateSyntax(expression, result) ==
  LET unbalanced == ~hasBalancedParentheses(expression)
      tooDeep    == calculateNestingDepth(expression) > MAX_NESTING_DEPTH
      r1 == IF unbalanced
              THEN [result EXCEPT !.errors = Append(@, "Unbalanced parentheses"),
                                  !.isValid = FALSE]
              ELSE result
      r2 == IF tooDeep
              THEN [r1 EXCEPT !.errors = Append(@, "Nesting too deep (max "
                                           \o ToString(MAX_NESTING_DEPTH) \o " levels)"),
                              !.isValid = FALSE]
              ELSE r1
  IN  IF invalidPatterns(expression)
        THEN [r2 EXCEPT !.warnings = Append(@, "Potentially invalid syntax detected")]
        ELSE r2

(***************************************************************************)
(* validateSecurity                                                        *)
(***************************************************************************)

\* Each pattern: the literals it looks for (any of them, under the i flag),
\* what must follow ("(" or "{" after \s*, "space" for \s+, "" for nothing),
\* and the name reported.
forbiddenPatterns ==
  << [lits |-> <<"eval">>,     follow |-> "(",     name |-> "eval function"],
     [lits |-> <<"function">>, follow |-> "(",     name |-> "function declaration"],
     [lits |-> <<"=>">>,       follow |-> "",      name |-> "arrow function"],
     [lits |-> <<"while">>,    follow |-> "(",     name |-> "while loop"],
     [lits |-> <<"for">>,      follow |-> "(",     name |-> "for loop"],
     [lits |-> <<"do">>,       follow |-> "{",     name |-> "do-while loop"],
     [lits |-> <<"if">>,       follow |-> "(",     name |-> "conditional statement"],
     [lits |-> <<"new">>,      follow |-> "space", name |-> "constructor call"],
     [lits |-> <<"import">>,   follow |-> "space", name |-> "import statement"],
     [lits |-> <<"export">>,   follow |-> "space", name |-> "export statement"],
     [lits |-> <<"require">>,  follow |-> "(",     name |-> "require call"],
     [lits |-> <<"process.">>, follow |-> "",      name |-> "process object access"],
     [lits |-> <<"global.">>,  follow |-> "",      name |-> "global object access"],
     [lits |-> <<"window.">>,  follow |-> "",      name |-> "window object access"],
     [lits |-> <<"document.">>, follow |-> "",     name |-> "document object access"],
     [lits |-> <<"console.">>, follow |-> "",      name |-> "console object access"],
     [lits |-> <<"settimeout", "setinterval">>, follow |-> "", name |-> "timer function"],
     [lits |-> <<"xmlhttprequest", "fetch">>,   follow |-> "", name |-> "network request"] >>

\* pattern.test(expression)
PatternTest(p, s) ==
  \E i \in 1..Len(s) : \E k \in 1..Len(p.lits) :
    /\ LiteralAtNoCase(s, i, p.lits[k])
    /\ LET j == i + Len(p.lits[k])
       IN  CASE p.follow = ""      -> TRUE
             [] p.follow = "space" -> Ch(s, j) \in SpaceChars
             [] OTHER              -> Ch(s, SkipSpaces(s, j)) = p.follow

\* /\b[a-zA-Z_$][a-zA-Z0-9_$]*\s*\(/ matches at position i
CallAt(s, i) ==
  /\ WordBoundary(s, i)
  /\ Ch(s, i) \in IdStartChars
  /\ Ch(s, SkipSpaces(s, SkipIdChars(s, i))) = "("

\* expression.match(/\b[a-zA-Z_$][a-zA-Z0-9_$]*\s*\(/g), each match with its
\* trailing \s*\( removed: the names called, in order, with repetitions
RECURSIVE FunctionCallsFrom(_, _)
FunctionCallsFrom(s, pos) ==
  LET starts == {i \in pos..Len(s) : CallAt(s, i)}
      first  == SetMin(starts)
  IN  IF starts = {} THEN <<>>
      ELSE <<SubSeq(s, first, SkipIdChars(s, first) - 1)>>
             \o FunctionCallsFrom(s, SkipSpaces(s, SkipIdChars(s, first)) + 1)

functionCalls(expression) == FunctionCallsFrom(expression, 1)

\* the allow-list test of one called name (line 318)
IsAllowedCall(functionName) == InRegistry(functionName)

\* the errors of the loop over forbiddenPatterns
ForbiddenErrors(s) ==
  LET hits == SelectSeq(forbiddenPatterns, LAMBDA p : PatternTest(p, s))
  IN  [i \in 1..Len(hits) |-> "Forbidden pattern detected: " \o hits[i].name]

\* the errors of the loop over functionCalls
UnknownFunctionErrors(calls) ==
  LET unknown == SelectSeq(calls, LAMBDA functionName : ~IsAllowedCall(functionName))
  IN  [i \in 1..Len(unknown) |-> "Unknown or forbidden function: " \o unknown[i]]

validateSecurity(expression, result) ==
  LET found == ForbiddenErrors(expression)
               \o UnknownFunctionErrors(functionCalls(expression))
  IN  IF found = <<>> THEN result
      ELSE [result EXCEPT !.errors = @ \o found, !.isValid = FALSE]

(***************************************************************************)
(* analyzeComplexity and extractDependencies                               *)
(***************************************************************************)

\* the number of matches of /\b(w1|w2|...)\b/g
CountWords(s, words) ==
  Cardinality({i \in 1..Len(s) :
                 /\ WordBoundary(s, i)
                 /\ \E w \in words : LiteralAt(s, i, w) /\ WordBoundary(s, i + Len(w))})

\* The score in tenths, so that Math.round is integer arithmetic:
\* length * 0.1 + operators * 1 + parentheses * 2 + common * 3 + expensive * 5
ComplexityTenths(s) ==
    Len(s)
  + 10 * CountChars(s, {"+", "-", "*", "/", "^", "%"})
  + 20 * CountChars(s, {"("})
  + 30 * CountWords(s, {"sin", "cos", "tan", "exp", "log", "pow"})
  + 50 * CountWords(s, {"gamma", "hypot"})

\* Math.round of a non-negative number of tenths
RoundTenths(n) == (n + 5) \div 10

analyzeComplexity(expression, result) ==
  LET complexity == RoundTenths(ComplexityTenths(expression))
      r1 == [result EXCEPT !.complexity = complexity]
      r2 == IF complexity > 100
              THEN [r1 EXCEPT !.warnings =
                      Append(@, "High complexity expression may impact performance")]
              ELSE r1
  IN  IF complexity > 500
        THEN [r2 EXCEPT !.warnings = Append(@,
               "Extremely complex expression may cause significant performance issues")]
        ELSE r2

\* /\b[a-zA-Z_$][a-zA-Z0-9_$]*\b/ at position i: the position just past the
\* match, the longest run of identifier characters that ends at a word
\* boundary; 0 when there is no match at i
IdentifierEnd(s, i) ==
  IF WordBoundary(s, i) /\ Ch(s, i) \in IdStartChars
    THEN LET ends == {j \in (i + 1)..SkipIdChars(s, i) : WordBoundary(s, j)}
         IN  IF ends = {} THEN 0 ELSE CHOOSE j \in ends : \A k \in ends : k <= j
    ELSE 0

\* expression.match(/\b[a-zA-Z_$][a-zA-Z0-9_$]*\b/g)
RECURSIVE IdentifiersFrom(_, _)
IdentifiersFrom(s, pos) ==
  LET starts == {i \in pos..Len(s) : IdentifierEnd(s, i) > 0}
      first  == SetMin(starts)
  IN  IF starts = {} THEN <<>>
      ELSE <<SubSeq(s, first, IdentifierEnd(s, first) - 1)>>
             \o IdentifiersFrom(s, IdentifierEnd(s, first))

extractDependencies(expression, result) ==
  LET functionsUsed == Dedupe(functionCalls(expression))
      matches   == IdentifiersFrom(expression, 1)
      variables == SelectSeq(matches,
                     LAMBDA m : ~InRegistry(m) /\ m \notin Range(functionsUsed))
  IN  [result EXCEPT !.functionsUsed = functionsUsed,
                     !.variablesUsed = Dedupe(variables)]

(***************************************************************************)
(* validateExpression without its memo: what lines 196-223 compute         *)
(***************************************************************************)

EmptyResult ==
  [isValid |-> TRUE, errors |-> <<>>, warnings |-> <<>>, complexity |-> 0,
   functionsUsed |-> <<>>, variablesUsed |-> <<>>]

\* the four checks of lines 219-222, each one updating the result
RunChecks(expression, result) ==
  extractDependencies(expression,
    analyzeComplexity(expression,
      validateSecurity(expression,
        validateSyntax(expression, result))))

\* lines 212-217
CheckLength(expression, result) ==
  IF Len(expression) > MAX_EXPRESSION_LENGTH
    THEN [result EXCEPT !.errors = Append(@, "Expression too long (max "
                                            \o ToString(MAX_EXPRESSION_LENGTH)
                                            \o " characters)"),
                        !.isValid = FALSE]
    ELSE result

\* a validation that runs its checks on blank texts, too
ComputeValidationOfBlank(expression) ==
  RunChecks(expression, CheckLength(expression, EmptyResult))

\* a validation that returns once the text is found too long
ComputeValidationUntilTooLong(expression) ==
  IF expression = "" \/ Trim(expression) = ""
    THEN [EmptyResult EXCEPT !.errors = <<"Expression cannot be empty">>,
                             !.isValid = FALSE]
  ELSE IF Len(expression) > MAX_EXPRESSION_LENGTH
    THEN CheckLength(expression, EmptyResult)
  ELSE RunChecks(expression, EmptyResult)

ComputeValidation(expression) ==
  IF expression = "" \/ Trim(expression) = ""
    THEN [EmptyResult EXCEPT !.errors = <<"Expression cannot be empty">>,
                             !.isValid = FALSE]
    ELSE RunChecks(expression, CheckLength(expression, EmptyResult))

(***************************************************************************)
(* compileExpression, the textual rewrite (lines 470-484)                  *)
(***************************************************************************)

\* s.replace(/\b(n1|n2|...)\s*\(/g, "Math.$1("), from position pos on
RECURSIVE ReplaceCallsFrom(_, _, _)
ReplaceCallsFrom(s, pos, names) ==
  LET Hits(i) == {n \in names :
                    /\ WordBoundary(s, i)
                    /\ LiteralAt(s, i, n)
                    /\ Ch(s, SkipSpaces(s, i + Len(n))) = "("}
      starts == {i \in pos..Len(s) : Hits(i) # {}}
      first  == SetMin(starts)
      n      == CHOOSE h \in Hits(first) : TRUE
  IN  IF starts = {} THEN SubSeq(s, pos, Len(s))
      ELSE SubSeq(s, pos, first - 1) \o "Math." \o n \o "("
             \o ReplaceCallsFrom(s, SkipSpaces(s, first + Len(n)) + 1, names)

ReplaceCalls(s, names) == ReplaceCallsFrom(s, 1, names)

\* s.replace(/\b(w1|w2|...)\b/g, replacement), from position pos on
RECURSIVE ReplaceWordsFrom(_, _, _, _)
ReplaceWordsFrom(s, pos, words, replacement) ==
  LET Hits(i) == {w \in words :
                    /\ WordBoundary(s, i)
                    /\ LiteralAt(s, i, w)
                    /\ WordBoundary(s, i + Len(w))}
      starts == {i \in pos..Len(s) : Hits(i) # {}}
      first  == SetMin(starts)
      w      == CHOOSE h \in Hits(first) : TRUE
  IN  IF starts = {} THEN SubSeq(s, pos, Len(s))
      ELSE SubSeq(s, pos, first - 1) \o replacement
             \o ReplaceWordsFrom(s, first + Len(w), words, replacement)

ReplaceWords(s, words, replacement) == ReplaceWordsFrom(s, 1, words, replacement)

\* the function names the five call rewrites cover
RewrittenCalls ==
  << {"sin", "cos", "tan", "asin", "acos", "atan", "atan2",
      "sinh", "cosh", "tanh", "asinh", "acosh", "atanh"},
     {"exp", "exp2", "expm1", "log", "log10", "log2", "log1p"},
     {"pow", "sqrt", "cbrt", "hypot"},
     {"abs", "sign", "floor", "ceil", "round", "trunc", "fround"},
     {"min", "max"} >>

\* the constant rewrites, in the order they are applied
RewrittenConstants ==
  << [words |-> {"PI", "pi"}, to |-> "Math.PI"],
     [words |-> {"E", "e"},   to |-> "Math.E"],
     [words |-> {"TAU"},      to |-> "(Math.PI * 2)"],
     [words |-> {"PHI"},      to |-> "((1 + Math.sqrt(5)) / 2)"],
     [words |-> {"DEG2RAD"},  to |-> "(Math.PI / 180)"],
     [words |-> {"RAD2DEG"},  to |-> "(180 / Math.PI)"] >>

\* Each replace works on the finished text of the one before it (the test
\* of the length makes the model finish it first).
RECURSIVE ApplyCallRewrites(_, _)
ApplyCallRewrites(s, k) ==
  IF k > Len(RewrittenCalls) THEN s
  ELSE LET replaced == ReplaceCalls(s, RewrittenCalls[k])
       IN  IF Len(replaced) >= 0 THEN ApplyCallRewrites(replaced, k + 1) ELSE s

RECURSIVE ApplyConstantRewrites(_, _)
ApplyConstantRewrites(s, k) ==
  IF k > Len(RewrittenConstants) THEN s
  ELSE LET replaced == ReplaceWords(s, RewrittenConstants[k].words,
                                    RewrittenConstants[k].to)
       IN  IF Len(replaced) >= 0 THEN ApplyConstantRewrites(replaced, k + 1) ELSE s

safeExpression(expression) ==
  ApplyConstantRewrites(ApplyCallRewrites(expression, 1), 1)

(***************************************************************************)
(* The JavaScript engine behind `new Function` (lines 487-499): the text   *)
(* `const result = <safeExpression>;` is parsed when the function is       *)
(* created and evaluated when it is called.  The engine is modelled for    *)
(* the arithmetic fragment: decimal literals, identifiers, member access,  *)
(* calls, parentheses, the comma operator, unary + and -, binary + - * / % *)
(* Anything else of JavaScript (comments, regular expressions, ++, **, ^,  *)
(* reserved words, line breaks inside the text, ...) is reported as        *)
(* "unsupported", and no input of the model is such a text.                *)
(***************************************************************************)

ReservedWords ==
  { "await", "break", "case", "catch", "class", "const", "continue", "debugger",
    "default", "delete", "do", "else", "enum", "export", "extends", "false",
    "finally", "for", "function", "if", "implements", "import", "in",
    "instanceof", "interface", "let", "new", "null", "package", "private",
    "protected", "public", "return", "static", "super", "switch", "this",
    "throw", "true", "try", "typeof", "var", "void", "while", "with", "yield",
    "arguments", "async", "of", "get", "set" }

\* the words of the statements the model follows
StatementWords == {"try", "finally", "throw"}

SkipDigits(s, i) == SkipChars(s, i, Digits)

DigitValue(c) == CHOOSE v \in 0..9 : Ch("0123456789", v + 1) = c

\* the value of the digits s[i..j-1]
RECURSIVE DigitsValue(_, _, _)
DigitsValue(s, i, j) ==
  IF j <= i THEN 0
  ELSE 10 * DigitsValue(s, i, j - 1) + DigitValue(Ch(s, j - 1))

RECURSIVE PowerOfTen(_)
PowerOfTen(k) == IF k = 0 THEN 1 ELSE 10 * PowerOfTen(k - 1)

\* The token that starts at position i (no space there), with the position
\* after it.  type "bad" is a lexical SyntaxError.
TokenAt(s, i) ==
  LET c == Ch(s, i)
  IN  IF c \in Digits THEN
        LET j == SkipDigits(s, i)
            fraction == Ch(s, j) = "." /\ Ch(s, j + 1) \in Digits
            k == IF fraction THEN SkipDigits(s, j + 1) ELSE j
            after == Ch(s, k)
        IN  IF (j - i > 1 /\ c = "0") \/ (Ch(s, j) = "." /\ ~fraction) \/ after = "."
                  \/ after \in {"e", "E", "n", "x", "X", "b", "B", "o", "O", "_"}
              THEN [type |-> "unsupported", next |-> k]
            ELSE IF after \in IdStartChars
              THEN [type |-> "bad", next |-> k]
            ELSE [type |-> "num",
                  n |-> DigitsValue(s, i, j) * PowerOfTen(k - j - (IF fraction THEN 1 ELSE 0))
                        + (IF fraction THEN DigitsValue(s, j + 1, k) ELSE 0),
                  d |-> PowerOfTen(k - j - (IF fraction THEN 1 ELSE 0)),
                  next |-> k]
      ELSE IF c \in IdStartChars THEN
        LET j == SkipIdChars(s, i)
            name == SubSeq(s, i, j - 1)
        IN  IF name \in StatementWords
              THEN [type |-> "kw", text |-> name, next |-> j]
            ELSE IF name \in ReservedWords
              THEN [type |-> "unsupported", next |-> j]
              ELSE [type |-> "id", name |-> name, next |-> j]
      ELSE IF c \in {"+", "-", "*", "/", "%", "(", ")", ",", ".", "{", "}", ";"} THEN
        IF \/ c \in {"+", "-", "*"} /\ Ch(s, i + 1) = c
           \/ c = "/" /\ Ch(s, i + 1) \in {"/", "*"}
           \/ c = "." /\ Ch(s, i + 1) \in Digits \cup {"."}
          THEN [type |-> "unsupported", next |-> i + 1]
          ELSE [type |-> "op", text |-> c, next |-> i + 1]
      ELSE [type |-> "unsupported", next |-> i + 1]

\* the tokens of s from position pos on; spaces and tabs separate tokens
RECURSIVE TokensFrom(_, _)
TokensFrom(s, pos) ==
  IF pos > Len(s) THEN <<>>
  ELSE IF Ch(s, pos) \in {" ", "\t"} THEN TokensFrom(s, pos + 1)
  ELSE LET tok == TokenAt(s, pos)
       IN  <<tok>> \o TokensFrom(s, tok.next)

\* White space around the text is between `=` and `;` and changes nothing.
Tokenize(s) == TokensFrom(Trim(s), 1)

IsOp(toks, pos, texts) ==
  pos <= Len(toks) /\ toks[pos].type = "op" /\ toks[pos].text \in texts

IsWord(toks, pos, word) ==
  pos <= Len(toks) /\ toks[pos].type = "kw" /\ toks[pos].text = word

\* Parse results: st is "ok" (with the tree and the position after it),
\* "syntax" (a SyntaxError) or "unsupported".
Parsed(ast, pos) == [st |-> "ok", ast |-> ast, pos |-> pos]

ParseFailure(st) == [st |-> st, ast |-> [node |-> "none"], pos |-> 0]

\* The grammar of the fragment, one rule per arm.  Parse(rule, toks, pos,
\* acc) parses by `rule` from position pos; acc is what the rule has
\* collected or the operand it continues (<<>> where a rule has neither).
\*   "additive"            Multiplicative {("+" | "-") Multiplicative}
\*   "multiplicative"      Unary {("*" | "/" | "%") Unary}
\*   "unary"               ("+" | "-") Unary | Primary {"." name | "(" list ")"}
\*   "primary"             number | name | "(" list ")" | "{" methods "}"
\*   "list"                Additive {"," Additive}, collected behind acc
\*   "statements"          the statements of a block up to its closing brace,
\*                         which is left in place: `throw e` and expression
\*                         statements; every other statement is outside
\*                         the fragment
\*   "methods"             the members of an object literal after its opening
\*                         brace, up to and including the closing brace:
\*                         methods without parameters, name() { statements }
\* "additiveRest", "multiplicativeRest" and "postfixRest" continue the
\* operand acc.
RECURSIVE Parse(_, _, _, _)
Parse(rule, toks, pos, acc) ==
  CASE rule = "list" ->
         LET item == Parse("additive", toks, pos, <<>>)
         IN  IF item.st # "ok" THEN item
             \* f(a,) is JavaScript and (a,) is not: the model tells neither
             ELSE IF IsOp(toks, item.pos, {","}) /\ IsOp(toks, item.pos + 1, {")"})
               THEN ParseFailure("unsupported")
             ELSE IF IsOp(toks, item.pos, {","})
               THEN Parse("list", toks, item.pos + 1, Append(acc, item.ast))
             ELSE Parsed(Append(acc, item.ast), item.pos)
    [] rule = "statements" ->
         IF pos > Len(toks) THEN ParseFailure("syntax")
         ELSE IF IsOp(toks, pos, {"}"}) THEN Parsed(acc, pos)
         ELSE IF toks[pos].type = "kw" /\ toks[pos].text # "throw"
           THEN ParseFailure("unsupported")
         ELSE IF IsOp(toks, pos, {"{", ";"}) THEN ParseFailure("unsupported")
         ELSE LET isThrow == IsWord(toks, pos, "throw")
                  arg  == Parse("additive", toks, IF isThrow THEN pos + 1 ELSE pos, <<>>)
                  stmt == [node |-> IF isThrow THEN "throw" ELSE "expression",
                           arg |-> arg.ast]
              IN  IF arg.st # "ok" THEN arg
                  ELSE IF IsOp(toks, arg.pos, {";"})
                    THEN Parse("statements", toks, arg.pos + 1, Append(acc, stmt))
                  ELSE IF IsOp(toks, arg.pos, {"}"})
                    THEN Parsed(Append(acc, stmt), arg.pos)
                  ELSE ParseFailure("unsupported")
    [] rule = "methods" ->
         IF IsOp(toks, pos, {"}"}) THEN Parsed(acc, pos + 1)
         ELSE IF /\ pos + 3 <= Len(toks)
                 /\ toks[pos].type = "id"
                 /\ IsOp(toks, pos + 1, {"("}) /\ IsOp(toks, pos + 2, {")"})
                 /\ IsOp(toks, pos + 3, {"{"})
           THEN LET body == Parse("statements", toks, pos + 4, <<>>)
                    method == [name |-> toks[pos].name, body |-> body.ast]
                IN  IF body.st # "ok" THEN body
                    ELSE IF IsOp(toks, body.pos + 1, {","}) /\ ~IsOp(toks, body.pos + 2, {"}"})
                      THEN Parse("methods", toks, body.pos + 2, Append(acc, method))
                    ELSE IF IsOp(toks, body.pos + 1, {"}"})
                      THEN Parsed(Append(acc, method), body.pos + 2)
                    ELSE ParseFailure("unsupported")
         ELSE ParseFailure("unsupported")
    [] rule = "primary" ->
         IF pos > Len(toks) THEN ParseFailure("syntax")
         ELSE LET tok == toks[pos]
              IN  CASE tok.type = "num" ->
                         Parsed([node |-> "num", n |-> tok.n, d |-> tok.d], pos + 1)
                    [] tok.type = "id" ->
                         Parsed([node |-> "id", name |-> tok.name], pos + 1)
                    [] tok.type = "op" /\ tok.text = "(" ->
                         LET inner == Parse("list", toks, pos + 1, <<>>)
                         IN  IF inner.st # "ok" THEN inner
                             ELSE IF IsOp(toks, inner.pos, {")"})
                               THEN Parsed([node |-> "comma", items |-> inner.ast],
                                           inner.pos + 1)
                             ELSE ParseFailure("syntax")
                    [] tok.type = "op" /\ tok.text = "{" ->
                         LET methods == Parse("methods", toks, pos + 1, <<>>)
                         IN  IF methods.st # "ok" THEN methods
                             ELSE Parsed([node |-> "object", methods |-> methods.ast],
                                         methods.pos)
                    \* a / where an operand starts opens a regular expression
                    \* literal
                    [] tok.type = "op" /\ tok.text = "/" -> ParseFailure("unsupported")
                    [] OTHER -> ParseFailure("syntax")
    \* member accesses and calls after a primary expression
    [] rule = "postfixRest" ->
         IF IsOp(toks, pos, {"."}) THEN
           IF pos + 1 <= Len(toks) /\ toks[pos + 1].type = "id"
             THEN Parse("postfixRest", toks, pos + 2,
                        [node |-> "member", obj |-> acc, name |-> toks[pos + 1].name])
             ELSE ParseFailure("syntax")
         ELSE IF IsOp(toks, pos, {"("}) THEN
           LET args == IF IsOp(toks, pos + 1, {")"})
                         THEN Parsed(<<>>, pos + 1)
                         ELSE Parse("list", toks, pos + 1, <<>>)
           IN  IF args.st # "ok" THEN args
               ELSE IF IsOp(toks, args.pos, {")"})
                 THEN Parse("postfixRest", toks, args.pos + 1,
                            [node |-> "call", callee |-> acc, args |-> args.ast])
               ELSE ParseFailure("syntax")
         ELSE Parsed(acc, pos)
    [] rule = "unary" ->
         LET signed  == IsOp(toks, pos, {"+", "-"})
             operand == Parse(IF signed THEN "unary" ELSE "primary", toks,
                              IF signed THEN pos + 1 ELSE pos, <<>>)
         IN  IF operand.st # "ok" THEN operand
             ELSE IF signed
               THEN Parsed([node |-> "unary", op |-> toks[pos].text, arg |-> operand.ast],
                           operand.pos)
             ELSE Parse("postfixRest", toks, operand.pos, operand.ast)
    [] rule \in {"multiplicativeRest", "additiveRest"} ->
         IF IsOp(toks, pos, IF rule = "additiveRest" THEN {"+", "-"} ELSE {"*", "/", "%"})
           THEN LET right == Parse(IF rule = "additiveRest" THEN "multiplicative"
                                   ELSE "unary", toks, pos + 1, <<>>)
                IN  IF right.st # "ok" THEN right
                    ELSE Parse(rule, toks, right.pos,
                               [node |-> "binary", op |-> toks[pos].text,
                                left |-> acc, right |-> right.ast])
           ELSE Parsed(acc, pos)
    [] rule \in {"multiplicative", "additive"} ->
         LET left == Parse(IF rule = "additive" THEN "multiplicative" ELSE "unary",
                           toks, pos, <<>>)
         IN  IF left.st # "ok" THEN left
             ELSE Parse(IF rule = "additive" THEN "additiveRest" ELSE "multiplicativeRest",
                        toks, left.pos, left.ast)

ParseAdditive(toks, pos) == Parse("additive", toks, pos, <<>>)

ParseStatements(toks, pos, stmts) == Parse("statements", toks, pos, stmts)

\* The text is pasted between `const result = ` and `;` inside a try block
\* (lines 492-494), so a text may close that block itself:
\*     E1 } finally { statements } try { E2
\* makes the body
\*     try { const result = E1 } finally { statements }
\*     try { E2; return isFinite(result) ? result : 0; } catch (error) { return 0; }
ParseEscape(toks, first, pos) ==
  LET Second(cleanup, second) ==
        IF second.st # "ok" THEN second
        ELSE IF second.pos # Len(toks) + 1 THEN ParseFailure("unsupported")
        ELSE Parsed([node |-> "escape", first |-> first, cleanup |-> cleanup.ast,
                     second |-> second.ast], second.pos)
      Cleanup(cleanup) ==
        IF cleanup.st # "ok" THEN cleanup
        ELSE IF ~(IsWord(toks, cleanup.pos + 1, "try") /\ IsOp(toks, cleanup.pos + 2, {"{"}))
          THEN ParseFailure("unsupported")
        ELSE Second(cleanup, ParseAdditive(toks, cleanup.pos + 3))
  IN  IF ~(/\ IsOp(toks, pos, {"}"})
           /\ IsWord(toks, pos + 1, "finally")
           /\ IsOp(toks, pos + 2, {"{"}))
        THEN ParseFailure("unsupported")
        ELSE Cleanup(ParseStatements(toks, pos + 3, <<>>))

\* new Function("context", body): the parse of the body around the text.
\* A text with a token outside the fragment is "unsupported" as a whole.
ParseProgram(text) ==
  LET Program(toks, whole) ==
        IF whole.st # "ok" THEN whole
        ELSE IF whole.pos = Len(toks) + 1 THEN whole
        ELSE IF toks[whole.pos].type = "kw" \/ IsOp(toks, whole.pos, {"}", "{", ";"})
          THEN ParseEscape(toks, whole.ast, whole.pos)
        ELSE ParseFailure("syntax")
      Body(toks) ==
        IF \E i \in 1..Len(toks) : toks[i].type = "unsupported"
          THEN ParseFailure("unsupported")
        ELSE IF \E i \in 1..Len(toks) : toks[i].type = "bad"
          THEN ParseFailure("syntax")
        ELSE Program(toks, ParseAdditive(toks, 1))
  IN  Body(Tokenize(text))

(***************************************************************************)
(* JavaScript values and arithmetic.  Finite numbers are exact rationals   *)
(* (rounding and overflow of doubles are not modelled); zero keeps its     *)
(* sign, which decides the sign of a quotient by zero.  A value "sym" is a *)
(* finite number the model does not compute (Math.PI, Math.sin(1)).        *)
(***************************************************************************)

Abs(n) == IF n < 0 THEN -n ELSE n

RECURSIVE GCD(_, _)
GCD(a, b) == IF b = 0 THEN a ELSE GCD(b, a % b)

\* the number n/d (d # 0) in lowest terms; negZero marks -0
Num(n, d) ==
  LET g == GCD(Abs(n), Abs(d))
      sign == IF d < 0 THEN -1 ELSE 1
  IN  [k |-> "num", n |-> sign * (n \div g), d |-> Abs(d) \div g, negZero |-> FALSE]

NegZero == [k |-> "num", n |-> 0, d |-> 1, negZero |-> TRUE]

Infinity(negative) == [k |-> "inf", negative |-> negative]

NaN == [k |-> "nan"]

Undefined == [k |-> "undef"]

\* an Error object the engine or the class creates
ErrorObject == [k |-> "error"]

\* the completion of a throw, with the value thrown
ThrownValue(v) == [k |-> "throw", value |-> v]

\* a ReferenceError, TypeError or RangeError thrown by the engine
Thrown == ThrownValue(ErrorObject)

\* the value of an object literal; its methods keep their parsed bodies
LiteralValue(methods) == [k |-> "lit", methods |-> methods]

Unsupported == [k |-> "unsupported"]

\* a string that is not the text of a number
StringValue == [k |-> "str"]

SymbolicNumber(tag) == [k |-> "sym", tag |-> tag]

IsNumber(v) == v.k \in {"num", "inf", "nan", "sym"}

IsNegative(v) ==
  CASE v.k = "num" -> v.n < 0 \/ v.negZero
    [] v.k = "inf" -> v.negative
    [] OTHER       -> FALSE

IsZero(v) == v.k = "num" /\ v.n = 0

Zero(negative) == IF negative THEN NegZero ELSE Num(0, 1)

\* ToNumber of a value of the fragment
ToNumber(v) == IF IsNumber(v) \/ v.k \in {"throw", "unsupported"} THEN v ELSE NaN

Negate(v) ==
  CASE v.k = "num" -> IF v.n = 0 THEN Zero(~v.negZero) ELSE Num(-v.n, v.d)
    [] v.k = "inf" -> Infinity(~v.negative)
    [] v.k = "sym" -> Unsupported
    [] OTHER       -> v

NumAdd(a, b) ==
  CASE a.k = "nan" \/ b.k = "nan" -> NaN
    [] a.k = "sym" \/ b.k = "sym" -> Unsupported
    [] a.k = "inf" /\ b.k = "inf" -> IF a.negative = b.negative THEN a ELSE NaN
    [] a.k = "inf" -> a
    [] b.k = "inf" -> b
    [] OTHER ->
         IF a.n = 0 /\ b.n = 0 THEN Zero(a.negZero /\ b.negZero)
         ELSE Num(a.n * b.d + b.n * a.d, a.d * b.d)

NumMul(a, b) ==
  LET negative == IsNegative(a) # IsNegative(b)
  IN  CASE a.k = "nan" \/ b.k = "nan" -> NaN
        [] a.k = "sym" \/ b.k = "sym" -> Unsupported
        [] a.k = "inf" \/ b.k = "inf" ->
             IF IsZero(a) \/ IsZero(b) THEN NaN ELSE Infinity(negative)
        [] OTHER ->
             IF a.n = 0 \/ b.n = 0 THEN Zero(negative) ELSE Num(a.n * b.n, a.d * b.d)

NumDiv(a, b) ==
  LET negative == IsNegative(a) # IsNegative(b)
  IN  CASE a.k = "nan" \/ b.k = "nan" -> NaN
        [] a.k = "sym" \/ b.k = "sym" -> Unsupported
        [] a.k = "inf" -> IF b.k = "inf" THEN NaN ELSE Infinity(negative)
        [] b.k = "inf" -> Zero(negative)
        [] IsZero(b)   -> IF IsZero(a) THEN NaN ELSE Infinity(negative)
        [] OTHER       -> IF a.n = 0 THEN Zero(negative) ELSE Num(a.n * b.d, a.d * b.n)

\* the integer part of n/d, rounded towards zero (d > 0)
TruncDiv(n, d) == IF n >= 0 THEN n \div d ELSE -((-n) \div d)

\* a % b: the remainder has the sign of the dividend
NumMod(a, b) ==
  CASE a.k = "nan" \/ b.k = "nan" -> NaN
    [] a.k = "sym" \/ b.k = "sym" -> Unsupported
    [] a.k = "inf" \/ IsZero(b)   -> NaN
    [] b.k = "inf"                -> a
    [] OTHER ->
         LET q == TruncDiv(a.n * b.d, a.d * Abs(b.n))
             r == Num(a.n * b.d - q * a.d * Abs(b.n), a.d * b.d)
         IN  IF r.n = 0 THEN Zero(IsNegative(a)) ELSE r

\* a string, or an object or function of the fragment, which + turns into a
\* string before it concatenates
ConvertsToString(v) == ~IsNumber(v) /\ v.k # "undef"

\* a binary operator on two values, neither thrown nor unsupported
ApplyBinary(op, left, right) ==
  IF op = "+" /\ (ConvertsToString(left) \/ ConvertsToString(right))
    THEN StringValue
    ELSE LET a == ToNumber(left)
             b == ToNumber(right)
         IN  CASE op = "+" -> NumAdd(a, b)
               [] op = "-" -> NumAdd(a, Negate(b))
               [] op = "*" -> NumMul(a, b)
               [] op = "/" -> NumDiv(a, b)
               [] op = "%" -> NumMod(a, b)

(***************************************************************************)
(* The Math namespace of the engine                                        *)
(***************************************************************************)

MathFunctionNames ==
  { "abs", "acos", "acosh", "asin", "asinh", "atan", "atan2", "atanh", "cbrt",
    "ceil", "clz32", "cos", "cosh", "exp", "expm1", "floor", "fround", "hypot",
    "imul", "log", "log10", "log1p", "log2", "max", "min", "pow", "random",
    "round", "sign", "sin", "sinh", "sqrt", "tan", "tanh", "trunc" }

MathConstantNames ==
  { "E", "LN10", "LN2", "LOG10E", "LOG2E", "PI", "SQRT1_2", "SQRT2" }

\* a < b for numbers that are neither NaN nor symbolic; -0 < +0 as Math.min
\* and Math.max order them
NumLess(a, b) ==
  CASE a.k = "inf" -> a.negative /\ ~(b.k = "inf" /\ b.negative)
    [] b.k = "inf" -> ~b.negative
    [] OTHER       -> \/ a.n * b.d < b.n * a.d
                      \/ a.n = 0 /\ b.n = 0 /\ a.negZero /\ ~b.negZero

\* floor(n/d) for d > 0
FloorDiv(n, d) == IF n >= 0 THEN n \div d ELSE -(((-n) + d - 1) \div d)

\* an integer-valued result of rounding x: zero takes the sign of x
Rounded(x, n) == IF n = 0 THEN Zero(IsNegative(x)) ELSE Num(n, 1)

RECURSIVE MathExtreme(_, _, _)
MathExtreme(args, best, wantMax) ==
  IF args = <<>> THEN best
  ELSE LET a == ToNumber(Head(args))
       IN  CASE a.k = "nan" \/ best.k = "nan" -> MathExtreme(Tail(args), NaN, wantMax)
             [] a.k = "sym" \/ best.k \in {"sym", "unsupported"} ->
                  MathExtreme(Tail(args), Unsupported, wantMax)
             [] OTHER ->
                  MathExtreme(Tail(args),
                    IF (IF wantMax THEN NumLess(best, a) ELSE NumLess(a, best))
                      THEN a ELSE best,
                    wantMax)

\* Math.<name>(args) for the functions the model computes; the others, and
\* symbolic arguments, are unsupported
MathApply(name, args) ==
  LET x == IF Len(args) >= 1 THEN ToNumber(args[1]) ELSE NaN
  IN  CASE name = "max" -> MathExtreme(args, Infinity(TRUE), TRUE)
        [] name = "min" -> MathExtreme(args, Infinity(FALSE), FALSE)
        [] name \notin {"abs", "sign", "floor", "ceil", "round", "trunc",
                        "sqrt", "sin", "cos"} -> Unsupported
        [] x.k = "sym" -> Unsupported
        [] x.k = "nan" -> NaN
        [] name = "abs" -> IF IsNegative(x) THEN Negate(x) ELSE x
        [] name = "sign" ->
             IF IsZero(x) THEN x ELSE IF IsNegative(x) THEN Num(-1, 1) ELSE Num(1, 1)
        [] name \in {"sin", "cos"} /\ x.k = "inf" -> NaN
        [] name = "sin" -> IF IsZero(x) THEN x ELSE SymbolicNumber("sin")
        [] name = "cos" -> IF IsZero(x) THEN Num(1, 1) ELSE SymbolicNumber("cos")
        [] name = "sqrt" ->
             IF IsZero(x) THEN x
             ELSE IF IsNegative(x) THEN NaN
             ELSE IF x.k = "inf" THEN x
             ELSE IF \E rn \in 1..x.n : \E rd \in 1..x.d : rn * rn = x.n /\ rd * rd = x.d
               THEN LET rn == CHOOSE r \in 1..x.n : r * r = x.n
                        rd == CHOOSE r \in 1..x.d : r * r = x.d
                    IN  Num(rn, rd)
             ELSE SymbolicNumber("sqrt")
        [] x.k = "inf" -> x
        [] name = "floor" -> Rounded(x, FloorDiv(x.n, x.d))
        [] name = "ceil"  -> Rounded(x, -FloorDiv(-x.n, x.d))
        [] name = "round" -> Rounded(x, FloorDiv(2 * x.n + x.d, 2 * x.d))
        [] name = "trunc" -> Rounded(x, TruncDiv(x.n, x.d))

(***************************************************************************)
(* Evaluation of the parsed expression inside the generated function       *)
(***************************************************************************)

ObjectValue(props) == [k |-> "obj", props |-> props]

MathNamespace == [k |-> "math"]

FunctionValue(name) == [k |-> "fn", name |-> name]

\* the global function eval
EvalFunction == [k |-> "eval"]

\* the console object of the host and its methods
ConsoleObject == [k |-> "console"]

HostFunction == [k |-> "hostfn"]

\* a method of Object.prototype, which the global object inherits
PrototypeFunction(name) == [k |-> "protofn", name |-> name]

\* Globals of the language whose value the model does not compute, and
\* globals only some hosts define.
UnmodelledGlobals ==
  (ObjectPrototypeKeys \ {"toString", "hasOwnProperty"}) \cup
  { "globalThis", "window", "self", "global", "process", "document",
    "isFinite", "isNaN", "parseFloat", "parseInt", "Number", "Object", "String",
    "Boolean", "Array", "Function", "Symbol", "Date", "JSON", "Reflect", "Proxy",
    "Promise", "RegExp", "Error", "Map", "Set", "BigInt", "escape", "unescape",
    "encodeURI", "decodeURI", "encodeURIComponent", "decodeURIComponent",
    "setTimeout", "setInterval", "fetch", "XMLHttpRequest", "name", "length",
    "top", "parent", "status", "event", "location", "history", "navigator" }

\* The bindings the generated function sees:
\*   const { t = 0, time = 0, ...vars } = context || {};
\* t and time are locals; every other entry of the context is a property of
\* the local object vars, not a local of its own.
ResolveIdentifier(name, context) ==
  CASE name = "t"    -> IF "t" \in DOMAIN context THEN Num(context["t"], 1) ELSE Num(0, 1)
    [] name = "time" -> IF "time" \in DOMAIN context THEN Num(context["time"], 1) ELSE Num(0, 1)
    [] name = "vars" ->
         ObjectValue([n \in DOMAIN context \ {"t", "time"} |-> context[n]])
    [] name = "context"   -> ObjectValue(context)
    \* `result` is read inside its own initializer
    [] name = "result"    -> Thrown
    [] name = "Math"      -> MathNamespace
    [] name = "NaN"       -> NaN
    [] name = "Infinity"  -> Infinity(FALSE)
    [] name = "undefined" -> Undefined
    [] name = "eval"      -> EvalFunction
    [] name = "console"   -> ConsoleObject
    [] name \in {"toString", "hasOwnProperty"} -> PrototypeFunction(name)
    [] name \in UnmodelledGlobals -> Unsupported
    \* an unbound identifier: ReferenceError
    [] OTHER -> Thrown

GetMember(v, name) ==
  CASE v.k \in {"throw", "unsupported"} -> v
    \* a property of undefined: TypeError
    [] v.k = "undef" -> Thrown
    [] v.k = "obj" ->
         IF name \in DOMAIN v.props THEN Num(v.props[name], 1)
         ELSE IF name \in ObjectPrototypeKeys THEN Unsupported
         ELSE Undefined
    [] v.k = "math" ->
         IF name \in MathFunctionNames THEN FunctionValue(name)
         ELSE IF name \in MathConstantNames THEN SymbolicNumber(name)
         ELSE IF name \in ObjectPrototypeKeys THEN Unsupported
         ELSE Undefined
    [] v.k = "console" ->
         IF name \in {"log", "warn", "error", "info", "debug"} THEN HostFunction
         ELSE Unsupported
    [] IsNumber(v) ->
         IF name \in ObjectPrototypeKeys \cup {"toFixed", "toPrecision", "toExponential"}
           THEN Unsupported
           ELSE Undefined
    [] OTHER -> Unsupported

RECURSIVE Eval(_, _)
RECURSIVE EvalAll(_, _)

\* the values of a list of expressions, left to right; a throw ends it
EvalAll(items, context) ==
  IF items = <<>> THEN <<>>
  ELSE LET v == Eval(Head(items), context)
       IN  IF v.k = "throw" THEN <<v>> ELSE <<v>> \o EvalAll(Tail(items), context)

\* the first thrown or unsupported value of a list, if any
Abrupt(values) ==
  IF \E i \in 1..Len(values) : values[i].k \in {"throw", "unsupported"}
    THEN values[CHOOSE i \in 1..Len(values) :
                  /\ values[i].k \in {"throw", "unsupported"}
                  /\ \A j \in 1..(i - 1) : values[j].k \notin {"throw", "unsupported"}]
    ELSE Undefined

\* Conversions of an object literal to a primitive run its own methods;
\* the model follows them only in StringOf below.
HasLiteral(values) == \E i \in 1..Len(values) : values[i].k = "lit"

Eval(ast, context) ==
  CASE ast.node = "num" -> Num(ast.n, ast.d)
    [] ast.node = "object" -> LiteralValue(ast.methods)
    [] ast.node = "id"  -> ResolveIdentifier(ast.name, context)
    [] ast.node = "member" -> GetMember(Eval(ast.obj, context), ast.name)
    [] ast.node = "comma" ->
         LET values == EvalAll(ast.items, context)
             abrupt == Abrupt(values)
         IN  IF abrupt # Undefined THEN abrupt ELSE values[Len(values)]
    [] ast.node = "unary" ->
         LET v == Eval(ast.arg, context)
         IN  IF v.k \in {"throw", "unsupported"} THEN v
             ELSE IF v.k = "lit" THEN Unsupported
             ELSE IF ast.op = "-" THEN Negate(ToNumber(v)) ELSE ToNumber(v)
    [] ast.node = "binary" ->
         LET values == EvalAll(<<ast.left, ast.right>>, context)
             abrupt == Abrupt(values)
         IN  IF abrupt # Undefined THEN abrupt
             ELSE IF HasLiteral(values) THEN Unsupported
             ELSE ApplyBinary(ast.op, values[1], values[2])
    [] ast.node = "call" ->
         LET values == EvalAll(<<ast.callee>> \o ast.args, context)
             abrupt == Abrupt(values)
         IN  IF abrupt # Undefined THEN abrupt
             ELSE IF HasLiteral(values) THEN Unsupported
             ELSE IF values[1].k = "fn" THEN MathApply(values[1].name, Tail(values))
             \* eval returns an argument that is no string as it is
             ELSE IF values[1].k = "eval"
               THEN IF Len(values) = 1 THEN Undefined
                    ELSE IF IsNumber(values[2]) THEN values[2] ELSE Unsupported
             ELSE IF values[1].k = "hostfn" THEN Unsupported
             \* called without a receiver, `this` is undefined: toString gives
             \* "[object Undefined]", hasOwnProperty a TypeError
             ELSE IF values[1].k = "protofn"
               THEN IF values[1].name = "toString" THEN StringValue ELSE Thrown
             \* a call of what is no function: TypeError
             ELSE Thrown

\* isFinite(v) of the language
isFinite(v) == ToNumber(v).k \in {"num", "sym"}

RECURSIVE ExecStatements(_, _)
\* The statements of a block in order: the completion is Undefined (the end
\* of the block is reached), a throw, or unsupported.
ExecStatements(stmts, context) ==
  IF stmts = <<>> THEN Undefined
  ELSE LET v == Eval(Head(stmts).arg, context)
       IN  IF v.k \in {"throw", "unsupported"} THEN v
           ELSE IF Head(stmts).node = "throw" THEN ThrownValue(v)
           ELSE ExecStatements(Tail(stmts), context)

\* `${v}` of a template literal: StringValue, or the completion of a throw.
\* An object literal is converted by its own toString method when it has
\* one; a toString that returns no primitive leaves the inherited valueOf,
\* which returns the object, and the conversion is a TypeError.
StringOf(v, context) ==
  IF v.k # "lit" THEN StringValue
  ELSE IF \E i \in 1..Len(v.methods) : v.methods[i].name \in {"valueOf", "constructor"}
    THEN Unsupported
  ELSE IF \E i \in 1..Len(v.methods) : v.methods[i].name = "toString"
    THEN LET last == CHOOSE i \in 1..Len(v.methods) :
                       /\ v.methods[i].name = "toString"
                       /\ \A j \in (i + 1)..Len(v.methods) : v.methods[j].name # "toString"
             Converted(done) == IF done = Undefined THEN Thrown ELSE done
         IN  Converted(ExecStatements(v.methods[last].body, context))
  ELSE StringValue

\* A call of the function compileExpression generates (lines 489-498): the
\* value it returns, or the completion of a throw that leaves it.
GeneratedFunction(ast, context) ==
  LET Escaped(first, cleanup, second) ==
        IF first.k = "unsupported" THEN first
        ELSE IF cleanup.k \in {"throw", "unsupported"} THEN cleanup
        ELSE IF first.k = "throw" THEN first
        ELSE IF second.k = "unsupported" THEN second
        \* `result` is out of scope in the second block: the ReferenceError
        \* (or a throw of E2) is caught there
        ELSE Num(0, 1)
      Returned(result) ==
        IF result.k = "unsupported" THEN result
        ELSE IF result.k = "throw" THEN Num(0, 1)
        \* isFinite converts an object literal with its own methods: a
        \* throw is caught, a string is not finite
        ELSE IF result.k = "lit" THEN Num(0, 1)
        ELSE IF isFinite(result) THEN result ELSE Num(0, 1)
  IN  IF ast.node = "escape"
        THEN Escaped(Eval(ast.first, context), ExecStatements(ast.cleanup, context),
                     Eval(ast.second, context))
        ELSE Returned(Eval(ast, context))

(***************************************************************************)
(* Inputs of the model                                                     *)
(***************************************************************************)

\* A context maps variable names to numbers; t and time may be absent.
Contexts ==
  { [t |-> 2, time |-> 3],
    [x |-> 5] }

\* a valid text that closes the try block of the generated function and
\* throws, from the finally block it opens, an object whose conversion to a
\* string throws an object whose conversion to a string throws
ThrowingText == "0}finally{throw{toString(){throw{toString(){throw 1}}}}}try{0"

\* The texts submitted where the outcome of evaluate and the counters are
\* looked at.
Expressions ==
  { "t", "x", "1/0",        \* valid and compilable
    "t +",                  \* valid, not compilable
    "eval(1)" }             \* rejected by validation

\* The texts submitted where an exception is looked for.
ThrowingExpressions == { "t", "0}finally{throw 1}try{0", ThrowingText }

\* The texts submitted where the bindings of the context are looked at.
ContextExpressions == { "t", "time", "x", "t + x" }

\* The texts submitted where the validation results are looked at.
ValidationExpressions ==
  { "time", " time",       \* one cache key, two complexities
    "",
    "eval(1)", "(eval)(1)", "toString(1)" }

\* The texts submitted where the size of the caches is looked at: more
\* cache keys than MAX_CACHE_SIZE.
CacheExpressions == { "t", "time", "t*2", "x", "1/0" }

\* The texts submitted where the names of the registry are looked at.
RegistryExpressions ==
  { "sin(0)",                             \* a name the rewrite covers
    "exp2(1)", "clamp(1, 0, 2)", "LN2" }  \* names of the registry, too

\* The texts submitted where the syntax checks are looked at.
SyntaxExpressions ==
  { "", "     ",            \* blank
    "(t", ")t(", "t)",      \* unbalanced
    "(t)", "t" }            \* balanced

\* String.prototype.repeat
RECURSIVE Repeat(_, _)
Repeat(s, n) ==
  IF n = 0 THEN ""
  ELSE IF n % 2 = 1 THEN s \o Repeat(s, n - 1)
  ELSE LET half == Repeat(s, n \div 2) IN half \o half

\* a text of exactly MAX_EXPRESSION_LENGTH characters
LimitText == "t" \o Repeat(" ", MAX_EXPRESSION_LENGTH - 1)

\* a text of MAX_EXPRESSION_LENGTH + 1 characters with an unbalanced
\* parenthesis
OverlongText == "(t" \o Repeat(" ", MAX_EXPRESSION_LENGTH - 1)

\* The texts submitted where the limit of the length is looked at.
LengthExpressions == { "t", "(t", LimitText, OverlongText }

\* The texts submitted where a failed compilation is looked at: as many
\* cache keys as MAX_CACHE_SIZE, and a valid text that does not compile.
CompileExpressions == { "t", "time", "x", "1/0", "t +" }

\* every text some specification of the module submits
\* A valid text with every warning: consecutive operators, and a complexity
\* of 621 from four groups of MAX_NESTING_DEPTH nested calls of gamma.
ExtremeText ==
  LET group == Repeat("gamma(", MAX_NESTING_DEPTH) \o "t" \o Repeat(")", MAX_NESTING_DEPTH)
  IN  group \o "+-" \o group \o "+" \o group \o "+" \o group

\* Texts with warnings alone ("t+-1" is t + (-1); "t +" does not compile),
\* a text without findings and a text with an error.
WarningExpressions == { "t", "t+-1", "t +", "(t", ExtremeText }

\* texts that differ in the whitespace around them or inside them
KeyExpressions == { "t", " t", "t ", "t*2", "t * 2" }

AllExpressions ==
  Expressions \cup ThrowingExpressions \cup ContextExpressions
    \cup ValidationExpressions \cup CacheExpressions \cup RegistryExpressions
    \cup SyntaxExpressions \cup LengthExpressions \cup CompileExpressions
    \cup KeyExpressions \cup WarningExpressions

\* milliseconds a call is observed to take (performance.now() differences)
ElapsedTimes == {1}

\* evaluate calls between two resetStats where the caches are looked at
MaxCacheEvaluations == 1

\* a reading of Date.now()
InitialTime == 20000

\* evaluate calls between two resetStats
MaxEvaluations == 2

\* evaluate calls between two resetStats where the hit rate is looked at
MaxRateEvaluations == 4

\* the texts submitted where the hit rate is looked at
RateExpressions == { "t", "time" }


(***************************************************************************)
(* What validation, compilation and execution give for each input, worked  *)
(* out once                                                                *)
(***************************************************************************)

\* A function compared with itself is enumerated once; its values are then
\* looked up instead of computed at each application.
Tabulated(f) == IF f = f THEN f ELSE f

ValidationTable == Tabulated([e \in AllExpressions |-> ComputeValidation(e)])

\* what the four checks alone report for a text longer than the limit
ChecksTable ==
  Tabulated([e \in {long \in AllExpressions : Len(long) > MAX_EXPRESSION_LENGTH} |->
               RunChecks(e, EmptyResult)])

ParseTable == Tabulated([e \in AllExpressions |-> ParseProgram(safeExpression(e))])

\* what a call of the function generated for a text gives in a context
ValueTable ==
  LET Value(parse, c) ==
        IF parse.st = "ok" THEN GeneratedFunction(parse.ast, c) ELSE Unsupported
  IN  Tabulated([e \in AllExpressions |-> [c \in Contexts |-> Value(ParseTable[e], c)]])

\* An input is modelled when the engine never sees it (validation rejects it)
\* or when it stays inside the fragment of JavaScript the model computes.
Modelled(e) ==
  LET Inside(parse, values) ==
        /\ parse.st # "unsupported"
        /\ parse.st = "ok" => \A c \in Contexts : values[c] # Unsupported
  IN  ~ValidationTable[e].isValid \/ Inside(ParseTable[e], ValueTable[e])

(***************************************************************************)
(* The state of the class: two static maps and the static stats record.    *)
(* lastCall and history are observations of the calls, not fields.         *)
(***************************************************************************)

VARIABLES
  validationCache,   \* Map<string, ValidationResult>, as a function
  expressionCache,   \* Map<string, callable>, as the sequence of its entries
                     \* in insertion order
  stats,             \* EvaluationStats
  lastCall,          \* the last call: its arguments, what it returned and logged
  history,           \* what earlier calls did, as far as a property needs it
  inputs,            \* what the callers of this run submit (see InitWith)
  pendingCalls,      \* the evaluate calls that have started and not returned
  wrapper,           \* the closure of a debounced or throttled function
  clock,             \* the reading of Date.now() and performance.now()
  trace              \* the calls, cancels and executions of the wrapped function

vars == <<validationCache, expressionCache, stats, lastCall, history, inputs,
          pendingCalls, wrapper, clock, trace>>

\* the variables of the debounced or throttled function
wrapperVars == <<wrapper, clock, trace>>

\* the variables of the evaluator
evaluatorVars ==
  <<validationCache, expressionCache, stats, lastCall, history, inputs, pendingCalls>>

EmptyValidationCache == [e \in {} |-> EmptyResult]

ZeroStats ==
  [totalEvaluations |-> 0, successfulEvaluations |-> 0, failedEvaluations |-> 0,
   averageEvaluationTime |-> Num(0, 1), cacheHitRate |-> Num(0, 1),
   lastEvaluationTime |-> 0]

CacheKeys(cache) == {cache[i].key : i \in 1..Len(cache)}

\* Map.get of a key the map holds
CacheGet(cache, key) == cache[CHOOSE i \in 1..Len(cache) : cache[i].key = key].func

(***************************************************************************)
(* validateExpression (lines 191-231)                                      *)
(***************************************************************************)

IsBlank(expression) == expression = "" \/ Trim(expression) = ""

\* a memo that takes the key of the compiled cache
TrimmedValidationKey(expression) == Trim(expression)

\* the key validateExpression memoizes a text under
ValidationKey(expression) == expression

\* a store that makes room by removing one entry of a full memo
StoreValidationEvictingOne(cache, expression, result) ==
  LET kept == IF Cardinality(DOMAIN cache) >= MAX_CACHE_SIZE
                THEN DOMAIN cache \ {CHOOSE e \in DOMAIN cache : TRUE}
                ELSE DOMAIN cache
      key  == ValidationKey(expression)
  IN  [e \in kept \cup {key} |-> IF e = key THEN result ELSE cache[e]]

\* the validation cache after the result of a text is stored (lines 225-229)
StoreValidation(cache, expression, result) ==
  LET kept == IF Cardinality(DOMAIN cache) >= MAX_CACHE_SIZE
                THEN EmptyValidationCache ELSE cache
      key  == ValidationKey(expression)
  IN  [e \in DOMAIN kept \cup {key} |-> IF e = key THEN result ELSE kept[e]]

\* the result returned and the validation cache afterwards
validateExpression(cache, expression) ==
  LET Validated(result) ==
        IF IsBlank(expression)
          THEN [result |-> result, cache |-> cache]
          ELSE [result |-> result, cache |-> StoreValidation(cache, expression, result)]
  IN  IF ValidationKey(expression) \in DOMAIN cache
        THEN [result |-> cache[ValidationKey(expression)], cache |-> cache]
        ELSE Validated(ValidationTable[expression])

(***************************************************************************)
(* compileExpression, executeFunction and the helpers of evaluate          *)
(***************************************************************************)

\* The callable new Function returns is identified by the text it was
\* compiled from; threw is the Error of lines 506-510.
compileExpression(expression) ==
  IF ParseTable[expression].st = "syntax"
    THEN [threw |-> TRUE, func |-> [src |-> ""]]
    ELSE [threw |-> FALSE, func |-> [src |-> expression]]

\* func(context) of line 528
CallCompiled(func, context) == ValueTable[func.src][context]

\* executeFunction (lines 521-543).  Its catch builds the message of a new
\* Error from `${error}`; a throw of that conversion leaves in its place.
executeFunction(func, context) ==
  LET Rethrown(message) ==
        [threw |-> TRUE, value |-> Num(0, 1),
         error |-> IF message.k = "throw" THEN message.value
                   ELSE IF message.k = "unsupported" THEN message
                   ELSE ErrorObject]
      Returned(result) ==
        IF result.k = "throw"
          THEN Rethrown(StringOf(result.value, context))
        ELSE IF result.k = "unsupported"
          THEN [threw |-> FALSE, value |-> result, error |-> ErrorObject]
        ELSE [threw |-> FALSE,
              value |-> IF IsNumber(result) /\ isFinite(result) THEN result ELSE Num(0, 1),
              error |-> ErrorObject]
  IN  Returned(CallCompiled(func, context))

\* a key that keeps the first character of the trimmed text only
FirstCharacterKey(expression) == Ch(Trim(expression), 1)

createCacheKey(expression) == Trim(expression)

\* Math.floor(MAX_CACHE_SIZE * 0.3)
EntriesToDelete == (MAX_CACHE_SIZE * 3) \div 10

\* an eviction that removes the entries inserted last
clearNewestCacheEntries(cache) == SubSeq(cache, 1, Len(cache) - EntriesToDelete)

clearOldestCacheEntries(cache) == SubSeq(cache, EntriesToDelete + 1, Len(cache))

\* a store that never evicts
StoreCompiledUnbounded(cache, cacheKey, func) ==
  Append(cache, [key |-> cacheKey, func |-> func])

\* the compiled cache after a miss stores a callable (lines 436-440)
StoreCompiled(cache, cacheKey, func) ==
  Append(IF Len(cache) >= MAX_CACHE_SIZE THEN clearOldestCacheEntries(cache) ELSE cache,
         [key |-> cacheKey, func |-> func])

\* the hit rate after a call; total is the counter already incremented
NextHitRate(rate, total, fromCache) ==
  LET cacheHits == NumMul(Num(total, 1), NumDiv(rate, Num(100, 1)))
      hits      == IF fromCache THEN NumAdd(cacheHits, Num(1, 1)) ELSE cacheHits
  IN  NumMul(NumDiv(hits, Num(total, 1)), Num(100, 1))

\* alpha = 0.1
NextAverage(average, evaluationTime) ==
  NumAdd(NumMul(average, Num(9, 10)), NumMul(Num(evaluationTime, 1), Num(1, 10)))

updateStats(st, evaluationTime, fromCache, now) ==
  [st EXCEPT !.averageEvaluationTime = NextAverage(@, evaluationTime),
             !.cacheHitRate = NextHitRate(@, st.totalEvaluations, fromCache),
             !.lastEvaluationTime = now]

\* the AppError handleEvaluationError logs; cause is the start of its message
handleEvaluationError(type, cause) ==
  [type |-> type, recoverable |-> TRUE, cause |-> cause]

RECURSIVE Join(_, _)
\* errors.join(separator)
Join(xs, separator) ==
  IF Len(xs) = 0 THEN ""
  ELSE IF Len(xs) = 1 THEN xs[1]
  ELSE xs[1] \o separator \o Join(Tail(xs), separator)

(***************************************************************************)
(* evaluate (lines 410-456).  The operator returns what the call returns   *)
(* (value), the three fields of the class after it, the records it passed  *)
(* to handleEvaluationError (errors), the steps it went through and        *)
(* whether its catch block was entered (caught).                           *)
(***************************************************************************)

\* The catch block of lines 447-455.  error is the value caught and cause
\* the text `${error}` starts with when the conversion gives one; a throw of
\* the conversion leaves evaluate before anything is logged or counted.
EvaluateCaught(vc, ec, st, validation, steps, error, cause, context) ==
  LET Logged(message) ==
        IF message.k = "throw"
          THEN [value |-> Undefined, threw |-> TRUE, caught |-> TRUE,
                validationCache |-> vc, expressionCache |-> ec, stats |-> st,
                errors |-> <<>>, validation |-> validation, steps |-> steps]
          ELSE [value |-> IF message.k = "unsupported" THEN message ELSE Num(0, 1),
                threw |-> FALSE, caught |-> TRUE,
                validationCache |-> vc, expressionCache |-> ec,
                stats |-> [st EXCEPT !.failedEvaluations = @ + 1],
                errors |-> <<handleEvaluationError("EXPRESSION_EVALUATION_ERROR",
                                                   "Evaluation failed: " \o cause)>>,
                validation |-> validation, steps |-> steps]
  IN  Logged(StringOf(error, context))

\* lines 416-423
EvaluateRejected(vc, ec, st, validation) ==
  [value |-> Num(0, 1), threw |-> FALSE, caught |-> FALSE,
   validationCache |-> vc, expressionCache |-> ec, stats |-> st,
   errors |-> <<handleEvaluationError("EXPRESSION_EVALUATION_ERROR",
                  "Invalid expression: " \o Join(validation.errors, ", "))>>,
   validation |-> validation, steps |-> <<"validate">>]

\* a hit that makes its entry the newest one, as a least-recently-used
\* cache does
EvaluateHitRefreshing(vc, ec, st, validation, cacheKey, context, elapsed, now) ==
  LET steps == <<"validate", "lookup", "updateStats", "execute">>
      refreshed == SelectSeq(ec, LAMBDA entry : entry.key # cacheKey)
                     \o <<[key |-> cacheKey, func |-> CacheGet(ec, cacheKey)]>>
      Executed(updated, run) ==
        IF run.threw
          THEN EvaluateCaught(vc, refreshed, updated, validation, steps, run.error,
                              IF run.error = ErrorObject
                                THEN "Error: Function execution failed" ELSE "",
                              context)
          ELSE [value |-> run.value, threw |-> FALSE, caught |-> FALSE,
                validationCache |-> vc, expressionCache |-> refreshed, stats |-> updated,
                errors |-> <<>>, validation |-> validation, steps |-> steps]
  IN  Executed(updateStats(st, elapsed, TRUE, now),
               executeFunction(CacheGet(ec, cacheKey), context))

\* lines 426-433
EvaluateHit(vc, ec, st, validation, cacheKey, context, elapsed, now) ==
  LET steps == <<"validate", "lookup", "updateStats", "execute">>
      Executed(updated, run) ==
        IF run.threw
          THEN EvaluateCaught(vc, ec, updated, validation, steps, run.error,
                              IF run.error = ErrorObject
                                THEN "Error: Function execution failed" ELSE "",
                              context)
          ELSE [value |-> run.value, threw |-> FALSE, caught |-> FALSE,
                validationCache |-> vc, expressionCache |-> ec, stats |-> updated,
                errors |-> <<>>, validation |-> validation, steps |-> steps]
  IN  Executed(updateStats(st, elapsed, TRUE, now),
               executeFunction(CacheGet(ec, cacheKey), context))

\* a miss that makes room in the cache before it compiles
EvaluateMissEvictingFirst(vc, ec, st, validation, expression, cacheKey, context, elapsed, now) ==
  LET room == IF Len(ec) >= MAX_CACHE_SIZE THEN clearOldestCacheEntries(ec) ELSE ec
      Executed(func, run) ==
        IF run.threw
          THEN EvaluateCaught(vc, Append(room, [key |-> cacheKey, func |-> func]), st,
                              validation, <<"validate", "lookup", "evict", "compile",
                                            "store", "execute">>,
                              run.error, "", context)
          ELSE [value |-> run.value, threw |-> FALSE, caught |-> FALSE,
                validationCache |-> vc,
                expressionCache |-> Append(room, [key |-> cacheKey, func |-> func]),
                stats |-> [updateStats(st, elapsed, FALSE, now)
                             EXCEPT !.successfulEvaluations = @ + 1],
                errors |-> <<>>, validation |-> validation,
                steps |-> <<"validate", "lookup", "evict", "compile", "store",
                            "execute", "updateStats">>]
      Compiled(compiled) ==
        IF compiled.threw
          THEN EvaluateCaught(vc, room, st, validation,
                              <<"validate", "lookup", "evict", "compile">>, ErrorObject,
                              "Error: Failed to compile expression", context)
          ELSE Executed(compiled.func, executeFunction(compiled.func, context))
  IN  Compiled(compileExpression(expression))

\* lines 435-446
EvaluateMiss(vc, ec, st, validation, expression, cacheKey, context, elapsed, now) ==
  LET evicted == IF Len(ec) >= MAX_CACHE_SIZE THEN <<"evict">> ELSE <<>>
      Executed(stored, run, updated) ==
        [value |-> run.value, threw |-> FALSE, caught |-> FALSE,
         validationCache |-> vc, expressionCache |-> stored,
         stats |-> [updated EXCEPT !.successfulEvaluations = @ + 1],
         errors |-> <<>>, validation |-> validation,
         steps |-> <<"validate", "lookup", "compile">> \o evicted
                     \o <<"store", "execute", "updateStats">>]
      \* the catch block is entered from the compilation (stored is the
      \* cache as it was) or from the execution
      Caught(compiled, stored, run) ==
        EvaluateCaught(vc, stored, st, validation,
                       IF compiled.threw
                         THEN <<"validate", "lookup", "compile">>
                         ELSE <<"validate", "lookup", "compile">> \o evicted
                                \o <<"store", "execute">>,
                       IF compiled.threw THEN ErrorObject ELSE run.error,
                       IF compiled.threw THEN "Error: Failed to compile expression"
                       ELSE IF run.error = ErrorObject
                         THEN "Error: Function execution failed"
                       ELSE "",
                       context)
      Stored(compiled, stored, run) ==
        IF run.threw
          THEN Caught(compiled, stored, run)
          ELSE Executed(stored, run, updateStats(st, elapsed, FALSE, now))
      Compiled(compiled) ==
        IF compiled.threw
          THEN Caught(compiled, ec, [threw |-> TRUE, error |-> ErrorObject])
          ELSE Stored(compiled, StoreCompiled(ec, cacheKey, compiled.func),
                      executeFunction(compiled.func, context))
  IN  Compiled(compileExpression(expression))

\* an evaluate that does not look at the validation result
evaluateUnvalidated(vc, ec, st, expression, context, elapsed, now) ==
  LET counted  == [st EXCEPT !.totalEvaluations = @ + 1]
      cacheKey == createCacheKey(expression)
      Validated(v) ==
        IF cacheKey \in CacheKeys(ec)
          THEN EvaluateHit(v.cache, ec, counted, v.result, cacheKey, context,
                           elapsed, now)
          ELSE EvaluateMiss(v.cache, ec, counted, v.result, expression, cacheKey,
                            context, elapsed, now)
  IN  Validated(validateExpression(vc, expression))

evaluate(vc, ec, st, expression, context, elapsed, now) ==
  LET counted  == [st EXCEPT !.totalEvaluations = @ + 1]
      cacheKey == createCacheKey(expression)
      Validated(v) ==
        IF ~v.result.isValid
          THEN EvaluateRejected(v.cache, ec, counted, v.result)
        ELSE IF cacheKey \in CacheKeys(ec)
          THEN EvaluateHit(v.cache, ec, counted, v.result, cacheKey, context,
                           elapsed, now)
        ELSE EvaluateMiss(v.cache, ec, counted, v.result, expression, cacheKey,
                          context, elapsed, now)
  IN  Validated(validateExpression(vc, expression))

\* getEvaluationStats (lines 724-748) read at the time now
getEvaluationStats(st, now) ==
  LET successRate ==
        IF st.totalEvaluations > 0
          THEN NumMul(NumDiv(Num(st.successfulEvaluations, 1),
                             Num(st.totalEvaluations, 1)), Num(100, 1))
          ELSE Num(0, 1)
      timeSinceLastEvaluation == now - st.lastEvaluationTime
  IN  [stats |-> st,
       successRate |-> successRate,
       failureRate |-> NumAdd(Num(100, 1), Negate(successRate)),
       evaluationsPerSecond |->
         IF timeSinceLastEvaluation < 10000
           THEN NumDiv(Num(st.totalEvaluations, 1),
                       NumDiv(Num(timeSinceLastEvaluation, 1), Num(1000, 1)))
           ELSE Num(0, 1)]

(***************************************************************************)
(* The calls of the public methods, each one atomic: the class runs on the *)
(* single thread of the page.                                              *)
(***************************************************************************)

\* valid texts whose compilation gives a callable
Compilable(expression) ==
  ValidationTable[expression].isValid /\ ~compileExpression(expression).threw

\* No call of evaluate is under way.  pendingCalls.flight maps each caller
\* whose call has compiled its text and not yet returned to what the call
\* holds in its local variables and to the step it is at;
\* pendingCalls.overlapped tells whether a call ever took a step while
\* another one was under way.
NoCalls == [flight |-> <<>>, overlapped |-> FALSE]

\* no debounced or throttled function has been created
NoWrapper == [kind |-> "none"]

\* history.compilableOnly: every evaluate since the last resetStats had a
\* valid, compilable text.  history.earlier: the result of the first call of
\* validateExpression for each watched text.  A call of validateExpression
\* is observed with fromMemo (the memo answered), again (the text was
\* validated before) and wiped (line 226 was reached with the memo full).  history.hits: the watched keys of the compiled cache,
\* as the last evaluate found it, that a call has been served from since
\* they were inserted.
NoHistory == [compilableOnly |-> TRUE, earlier |-> EmptyValidationCache, hits |-> {}]

\* the keys served from the compiled cache so far, after one more call
HitKeys(hits, cache, expression, steps) ==
  LET hit == IF "compile" \notin Range(steps) /\ "lookup" \in Range(steps)
               THEN {createCacheKey(expression)} \cap inputs.watched
               ELSE {}
  IN  (hits \cup hit) \cap CacheKeys(cache)

Remember(earlier, expression, result) ==
  IF expression \in DOMAIN earlier \/ expression \notin inputs.watched THEN earlier
  ELSE [e \in DOMAIN earlier \cup {expression} |->
          IF e = expression THEN result ELSE earlier[e]]

\* A run is given the texts and contexts its callers submit, the readings of
\* Date.now() they may observe, the number of evaluate calls between two
\* resetStats, and the texts whose validation results are remembered.
InitWith(texts, contexts, times, maxEvaluations, watched) ==
  /\ validationCache = EmptyValidationCache
  /\ expressionCache = <<>>
  /\ stats = ZeroStats
  /\ lastCall = [op |-> "none"]
  /\ history = NoHistory
  /\ inputs = [texts |-> {e \in texts : Modelled(e)}, contexts |-> contexts,
               times |-> times, maxEvaluations |-> maxEvaluations,
               watched |-> watched]
  /\ pendingCalls = NoCalls
  /\ wrapper = NoWrapper
  /\ clock = 0
  /\ trace = <<>>

Init == InitWith(Expressions, Contexts, {InitialTime}, MaxEvaluations, {})

Evaluate(expression, context, elapsed, now) ==
  /\ stats.totalEvaluations < inputs.maxEvaluations
  /\ now >= stats.lastEvaluationTime
  /\ \E call \in {evaluate(validationCache, expressionCache, stats, expression, context,
                           elapsed, now)} :
      /\ validationCache' = call.validationCache
      /\ expressionCache' = call.expressionCache
      /\ stats' = call.stats
      /\ lastCall' = [op |-> "evaluate", expression |-> expression, context |-> context,
                      value |-> call.value, threw |-> call.threw,
                      caught |-> call.caught, errors |-> call.errors,
                      validation |-> call.validation, steps |-> call.steps]
      /\ history' = [compilableOnly |-> history.compilableOnly /\ Compilable(expression),
                     earlier |-> Remember(history.earlier, expression, call.validation),
                     hits |-> HitKeys(history.hits, expressionCache, expression,
                                      call.steps)]
  /\ UNCHANGED <<inputs, pendingCalls, wrapperVars>>

ValidateExpression(expression) ==
  \E call \in {validateExpression(validationCache, expression)} :
      /\ validationCache' = call.cache
      /\ lastCall' = [op |-> "validateExpression", expression |-> expression,
                      result |-> call.result,
                      fromMemo |-> ValidationKey(expression) \in DOMAIN validationCache,
                      again |-> expression \in DOMAIN history.earlier,
                      wiped |-> /\ ValidationKey(expression) \notin DOMAIN validationCache
                                /\ ~IsBlank(expression)
                                /\ Cardinality(DOMAIN validationCache) >= MAX_CACHE_SIZE]
      /\ history' = [history EXCEPT
                       !.earlier = Remember(@, expression, call.result)]
      /\ UNCHANGED <<expressionCache, stats, inputs, pendingCalls, wrapperVars>>

\* a clearCache that starts the stats afresh, too
ClearCacheAndStats ==
  /\ expressionCache' = <<>>
  /\ validationCache' = EmptyValidationCache
  /\ stats' = ZeroStats
  /\ lastCall' = [op |-> "clearCache"]
  /\ UNCHANGED <<history, inputs, pendingCalls, wrapperVars>>

\* clearCache (lines 673-676)
ClearCache ==
  /\ expressionCache' = <<>>
  /\ validationCache' = EmptyValidationCache
  /\ lastCall' = [op |-> "clearCache"]
  /\ UNCHANGED <<stats, history, inputs, pendingCalls, wrapperVars>>

\* resetStats (lines 762-771)
ResetStats ==
  /\ stats' = ZeroStats
  /\ lastCall' = [op |-> "resetStats"]
  /\ history' = [history EXCEPT !.compilableOnly = TRUE]
  /\ UNCHANGED <<validationCache, expressionCache, inputs, pendingCalls, wrapperVars>>

(***************************************************************************)
(* evaluate taken apart.  The class has no lock; if two calls could run    *)
(* at once, each would go through its statements one at a time.  A call    *)
(* that has validated, missed the compiled cache and compiled (lines       *)
(* 411-435) goes on, in steps other calls may interleave with, to the size *)
(* test of line 436, the eviction of line 437, and line 440 onwards.       *)
(***************************************************************************)

\* the callers that may be inside evaluate at once
Callers == {1, 2}

\* a size test that lets the cache grow past its capacity
cacheIsOverfull(cache) == Len(cache) > MAX_CACHE_SIZE

\* the test of line 436
cacheIsFull(cache) == Len(cache) >= MAX_CACHE_SIZE

\* Map.prototype.set (line 440): a key the map holds keeps its place
MapSet(cache, cacheKey, func) ==
  IF cacheKey \in CacheKeys(cache)
    THEN [i \in 1..Len(cache) |->
            IF cache[i].key = cacheKey THEN [key |-> cacheKey, func |-> func]
            ELSE cache[i]]
    ELSE Append(cache, [key |-> cacheKey, func |-> func])

\* another call than the one of caller p is under way
OthersPending(p) == DOMAIN pendingCalls.flight \ {p} # {}

\* the local variables of a call and the step it is at
PendingCall(expression, context, validation, func, pc) ==
  [expression |-> expression, context |-> context, validation |-> validation,
   func |-> func, pc |-> pc]

\* the calls under way once caller p is at step pc
AtStep(p, pc) ==
  [flight |-> [pendingCalls.flight EXCEPT ![p].pc = pc],
   overlapped |-> pendingCalls.overlapped \/ OthersPending(p)]

\* lines 442-455 for a callable just stored
ExecuteStored(vc, stored, st, local, elapsed, now) ==
  LET steps == <<"validate", "lookup", "compile", "store", "execute">>
      Finished(run) ==
        IF run.threw
          THEN EvaluateCaught(vc, stored, st, local.validation, steps, run.error,
                              IF run.error = ErrorObject
                                THEN "Error: Function execution failed" ELSE "",
                              local.context)
          ELSE [value |-> run.value, threw |-> FALSE, caught |-> FALSE,
                validationCache |-> vc, expressionCache |-> stored,
                stats |-> [updateStats(st, elapsed, FALSE, now)
                             EXCEPT !.successfulEvaluations = @ + 1],
                errors |-> <<>>, validation |-> local.validation,
                steps |-> Append(steps, "updateStats")]
  IN  Finished(executeFunction(local.func, local.context))

\* Lines 411-435.  A call that is rejected, served from the cache or fails
\* to compile has none of the later steps and returns here.
EvaluateBegin(p, expression, context, elapsed, now) ==
  /\ p \notin DOMAIN pendingCalls.flight
  /\ stats.totalEvaluations < inputs.maxEvaluations
  /\ now >= stats.lastEvaluationTime
  /\ \E call \in {evaluate(validationCache, expressionCache, stats, expression, context,
                           elapsed, now)} :
      /\ validationCache' = call.validationCache
      /\ IF "store" \in Range(call.steps)
           THEN /\ stats' = [stats EXCEPT !.totalEvaluations = @ + 1]
                /\ pendingCalls' =
                     [flight |-> [q \in DOMAIN pendingCalls.flight \cup {p} |->
                                   IF q = p
                                     THEN PendingCall(expression, context, call.validation,
                                                      compileExpression(expression).func,
                                                      "check")
                                     ELSE pendingCalls.flight[q]],
                      overlapped |-> pendingCalls.overlapped \/ OthersPending(p)]
                /\ UNCHANGED <<expressionCache, lastCall, history>>
           ELSE /\ stats' = call.stats
                /\ expressionCache' = call.expressionCache
                /\ lastCall' = [op |-> "evaluate", expression |-> expression,
                                context |-> context, value |-> call.value,
                                threw |-> call.threw, caught |-> call.caught,
                                errors |-> call.errors, validation |-> call.validation,
                                steps |-> call.steps]
                /\ history' = [compilableOnly |->
                                 history.compilableOnly /\ Compilable(expression),
                               earlier |-> Remember(history.earlier, expression,
                                                    call.validation),
                               hits |-> HitKeys(history.hits, expressionCache, expression,
                                                call.steps)]
                /\ pendingCalls' = [pendingCalls EXCEPT
                                     !.overlapped = @ \/ OthersPending(p)]
  /\ UNCHANGED <<inputs, wrapperVars>>

\* line 436
EvaluateCheck(p) ==
  /\ p \in DOMAIN pendingCalls.flight
  /\ pendingCalls.flight[p].pc = "check"
  /\ pendingCalls' = AtStep(p, IF cacheIsFull(expressionCache) THEN "evict" ELSE "insert")
  /\ UNCHANGED <<validationCache, expressionCache, stats, lastCall, history, inputs,
                 wrapperVars>>

\* line 437
EvaluateEvict(p) ==
  /\ p \in DOMAIN pendingCalls.flight
  /\ pendingCalls.flight[p].pc = "evict"
  /\ expressionCache' = clearOldestCacheEntries(expressionCache)
  /\ pendingCalls' = AtStep(p, "insert")
  /\ UNCHANGED <<validationCache, stats, lastCall, history, inputs, wrapperVars>>

\* lines 440-455
EvaluateInsert(p, elapsed, now) ==
  /\ p \in DOMAIN pendingCalls.flight
  /\ pendingCalls.flight[p].pc = "insert"
  /\ now >= stats.lastEvaluationTime
  /\ \E local \in {pendingCalls.flight[p]} :
       \E call \in {ExecuteStored(validationCache,
                                  MapSet(expressionCache,
                                         createCacheKey(local.expression), local.func),
                                  stats, local, elapsed, now)} :
         /\ expressionCache' = call.expressionCache
         /\ stats' = call.stats
         /\ lastCall' = [op |-> "evaluate", expression |-> local.expression,
                         context |-> local.context, value |-> call.value,
                         threw |-> call.threw, caught |-> call.caught,
                         errors |-> call.errors, validation |-> call.validation,
                         steps |-> call.steps]
         /\ history' = [compilableOnly |->
                          history.compilableOnly /\ Compilable(local.expression),
                        earlier |-> Remember(history.earlier, local.expression,
                                             call.validation),
                        hits |-> HitKeys(history.hits, expressionCache, local.expression,
                                         call.steps)]
  /\ pendingCalls' =
       [flight |-> [q \in DOMAIN pendingCalls.flight \ {p} |-> pendingCalls.flight[q]],
        overlapped |-> pendingCalls.overlapped \/ OthersPending(p)]
  /\ UNCHANGED <<validationCache, inputs, wrapperVars>>

\* the runs in which calls of evaluate may interleave: each caller makes
\* one call between two resetStats
InitInterleaved ==
  InitWith(CacheExpressions, {[t |-> 2, time |-> 3]}, {InitialTime},
           Cardinality(Callers), {})

NextInterleaved ==
  \/ \E p \in Callers : \E expression \in inputs.texts : \E context \in inputs.contexts :
       \E elapsed \in ElapsedTimes : \E now \in inputs.times :
         EvaluateBegin(p, expression, context, elapsed, now)
  \/ \E p \in Callers : EvaluateCheck(p)
  \/ \E p \in Callers : EvaluateEvict(p)
  \/ \E p \in Callers : \E elapsed \in ElapsedTimes : \E now \in inputs.times :
       EvaluateInsert(p, elapsed, now)
  \/ DOMAIN pendingCalls.flight = {} /\ ResetStats

SpecInterleaved == InitInterleaved /\ [][NextInterleaved]_vars

(***************************************************************************)
(* debounce and throttle (src/unnamed/part_000).  The wrapper is the        *)
(* closure the factory returns: its options and the variables it captures. *)
(* Time is the clock in milliseconds.  A timer runs at the time it was set *)
(* for: the clock does not pass a pending timer, but calls made at that    *)
(* same time may run before the callback of the timer does.                *)
(***************************************************************************)

\* the delay the factories are given
Delays == {2}

\* the arguments of a call of the wrapped function
CallArguments == {1, 2}

\* the clock stops here
MaxTime == 5

\* calls and cancels of one run
MaxCalls == 3

\* the options objects the factories are given; {} is the default parameter
NoOptions == [name \in {} |-> TRUE]

OptionsGiven ==
  { NoOptions, [leading |-> TRUE], [trailing |-> TRUE],
    [leading |-> TRUE, trailing |-> TRUE], [leading |-> FALSE, trailing |-> TRUE] }

\* const { name = default } = options
Option(options, name, default) ==
  IF name \in DOMAIN options THEN options[name] ELSE default

\* timeoutId: null, or the id of a timer with the time it is set for, the
\* arguments its callback captured and whether it is still scheduled
\* (clearTimeout leaves the variable as it is)
NullTimeout == [set |-> FALSE, pending |-> FALSE, due |-> 0, args |-> 0]

Timeout(due, args) == [set |-> TRUE, pending |-> TRUE, due |-> due, args |-> args]

clearTimeout(timeoutId) == [timeoutId EXCEPT !.pending = FALSE]

\* lastArgs = null
NullArgs == 0

\* debounce(func, delay, options) (lines 301-308)
debounce(delay, options) ==
  [kind |-> "debounce", delay |-> delay, options |-> options,
   leading |-> Option(options, "leading", FALSE),
   trailing |-> Option(options, "trailing", FALSE),
   timeoutId |-> NullTimeout, lastInvokeTime |-> 0]

\* throttle(func, delay, options) (lines 374-382)
throttle(delay, options) ==
  [kind |-> "throttle", delay |-> delay, options |-> options,
   leading |-> Option(options, "leading", TRUE),
   trailing |-> Option(options, "trailing", TRUE),
   timeoutId |-> NullTimeout, lastCallTime |-> 0, lastArgs |-> NullArgs]

Event(e, args) == [e |-> e, time |-> clock, args |-> args]

CallsMade == Cardinality({i \in 1..Len(trace) : trace[i].e \in {"call", "cancel"}})

\* debounced(...args) (lines 310-330)
DebouncedCall(args) ==
  /\ wrapper.kind = "debounce"
  /\ CallsMade < MaxCalls
  /\ LET currentTime == clock
         invoke == /\ wrapper.leading
                   /\ \/ ~wrapper.timeoutId.set
                      \/ currentTime - wrapper.lastInvokeTime >= wrapper.delay
         cleared == IF wrapper.timeoutId.set
                      THEN clearTimeout(wrapper.timeoutId) ELSE wrapper.timeoutId
     IN  /\ wrapper' =
               [wrapper EXCEPT
                  !.lastInvokeTime = IF invoke THEN currentTime ELSE @,
                  !.timeoutId = IF wrapper.trailing
                                  THEN Timeout(currentTime + wrapper.delay, args)
                                  ELSE cleared]
         /\ trace' = trace \o <<Event("call", args)>>
                         \o (IF invoke THEN <<Event("execute", args)>> ELSE <<>>)
  /\ UNCHANGED <<clock, evaluatorVars>>

\* the callback debounced gave to setTimeout (lines 323-328)
DebounceTimer ==
  /\ wrapper.kind = "debounce"
  /\ wrapper.timeoutId.pending
  /\ clock >= wrapper.timeoutId.due
  /\ wrapper' = [wrapper EXCEPT !.lastInvokeTime = clock, !.timeoutId = NullTimeout]
  /\ trace' = Append(trace, Event("execute", wrapper.timeoutId.args))
  /\ UNCHANGED <<clock, evaluatorVars>>

\* debounced.cancel() (lines 332-337)
DebounceCancel ==
  /\ wrapper.kind = "debounce"
  /\ CallsMade < MaxCalls
  /\ wrapper' = [wrapper EXCEPT !.timeoutId = IF @.set THEN NullTimeout ELSE @]
  /\ trace' = Append(trace, Event("cancel", NullArgs))
  /\ UNCHANGED <<clock, evaluatorVars>>

\* throttled(...args) (lines 384-408)
ThrottledCall(args) ==
  /\ wrapper.kind = "throttle"
  /\ CallsMade < MaxCalls
  /\ LET currentTime == clock
         invoke == wrapper.leading /\ currentTime - wrapper.lastCallTime >= wrapper.delay
         remainingTime == wrapper.delay - (currentTime - wrapper.lastCallTime)
         delayed == IF remainingTime > 0 THEN remainingTime ELSE 0
     IN  /\ wrapper' =
               IF invoke
                 THEN [wrapper EXCEPT !.lastArgs = args, !.lastCallTime = currentTime]
               ELSE IF wrapper.trailing /\ ~wrapper.timeoutId.set
                 THEN [wrapper EXCEPT !.lastArgs = args,
                                      !.timeoutId = Timeout(currentTime + delayed, args)]
               ELSE [wrapper EXCEPT !.lastArgs = args]
         /\ trace' = trace \o <<Event("call", args)>>
                         \o (IF invoke THEN <<Event("execute", args)>> ELSE <<>>)
  /\ UNCHANGED <<clock, evaluatorVars>>

\* the callback throttled gave to setTimeout (lines 398-406)
ThrottleTimer ==
  /\ wrapper.kind = "throttle"
  /\ wrapper.timeoutId.pending
  /\ clock >= wrapper.timeoutId.due
  /\ wrapper' = [wrapper EXCEPT !.lastCallTime = clock, !.timeoutId = NullTimeout]
  /\ trace' = IF wrapper.lastArgs # NullArgs
                THEN Append(trace, Event("execute", wrapper.lastArgs))
                ELSE trace
  /\ UNCHANGED <<clock, evaluatorVars>>

\* throttled.cancel() (lines 410-417)
ThrottleCancel ==
  /\ wrapper.kind = "throttle"
  /\ CallsMade < MaxCalls
  /\ wrapper' = [wrapper EXCEPT !.timeoutId = IF @.set THEN NullTimeout ELSE @,
                                !.lastArgs = NullArgs]
  /\ trace' = Append(trace, Event("cancel", NullArgs))
  /\ UNCHANGED <<clock, evaluatorVars>>

\* a millisecond passes; a pending timer runs before the clock passes it
Tick ==
  /\ clock < MaxTime
  /\ wrapper.kind # "none"
  /\ wrapper.timeoutId.pending => clock < wrapper.timeoutId.due
  /\ clock' = clock + 1
  /\ UNCHANGED <<wrapper, trace, evaluatorVars>>

\* the evaluator is left alone while a wrapper is looked at
EvaluatorIdle ==
  /\ validationCache = EmptyValidationCache
  /\ expressionCache = <<>>
  /\ stats = ZeroStats
  /\ lastCall = [op |-> "none"]
  /\ history = NoHistory
  /\ inputs = [texts |-> {}, contexts |-> {}, times |-> {}, maxEvaluations |-> 0,
               watched |-> {}]
  /\ pendingCalls = NoCalls

InitDebounce ==
  /\ EvaluatorIdle
  /\ wrapper \in {debounce(delay, options) : delay \in Delays, options \in OptionsGiven}
  /\ clock = 0
  /\ trace = <<>>

NextDebounce ==
  \/ \E args \in CallArguments : DebouncedCall(args)
  \/ DebounceTimer
  \/ DebounceCancel
  \/ Tick

SpecDebounce == InitDebounce /\ [][NextDebounce]_vars

InitThrottle ==
  /\ EvaluatorIdle
  /\ wrapper \in {throttle(delay, options) : delay \in Delays, options \in OptionsGiven}
  /\ clock = 0
  /\ trace = <<>>

NextThrottle ==
  \/ \E args \in CallArguments : ThrottledCall(args)
  \/ ThrottleTimer
  \/ ThrottleCancel
  \/ Tick

SpecThrottle == InitThrottle /\ [][NextThrottle]_vars

Next ==
  \/ \E expression \in inputs.texts : \E context \in inputs.contexts :
       \E elapsed \in ElapsedTimes : \E now \in inputs.times :
         Evaluate(expression, context, elapsed, now)
  \/ \E expression \in inputs.texts : ValidateExpression(expression)
  \/ ClearCache
  \/ ResetStats

Spec == Init /\ [][Next]_vars

\* the runs in which an exception is looked for
InitThrowing ==
  InitWith(ThrowingExpressions, Contexts, {InitialTime}, MaxEvaluations, {})

SpecThrowing == InitThrowing /\ [][Next]_vars

\* the runs in which the bindings of the context are looked at
InitContext ==
  InitWith(ContextExpressions, Contexts, {InitialTime}, MaxEvaluations, {})

SpecContext == InitContext /\ [][Next]_vars

\* the runs in which the validation results are looked at
InitValidation ==
  InitWith(ValidationExpressions, {[t |-> 2, time |-> 3]}, {InitialTime},
           MaxCacheEvaluations, ValidationExpressions)

SpecValidation == InitValidation /\ [][Next]_vars

\* the runs in which the size of the caches is looked at
InitCache ==
  InitWith(CacheExpressions, {[t |-> 2, time |-> 3]}, {InitialTime},
           MaxCacheEvaluations, {})

SpecCache == InitCache /\ [][Next]_vars

\* the runs in which the names of the registry are looked at
InitRegistry ==
  InitWith(RegistryExpressions, {[t |-> 2, time |-> 3]}, {InitialTime},
           MaxCacheEvaluations, {})

SpecRegistry == InitRegistry /\ [][Next]_vars

\* the runs in which the syntax checks are looked at
InitSyntax ==
  InitWith(SyntaxExpressions, {[t |-> 2, time |-> 3]}, {InitialTime},
           MaxCacheEvaluations, {})

SpecSyntax == InitSyntax /\ [][Next]_vars

\* the runs in which the limit of the length is looked at
InitLength ==
  InitWith(LengthExpressions, {[t |-> 2, time |-> 3]}, {InitialTime},
           MaxEvaluations, {})

SpecLength == InitLength /\ [][Next]_vars

\* the runs in which a failed compilation is looked at
InitCompile ==
  InitWith(CompileExpressions, {[t |-> 2, time |-> 3]}, {InitialTime},
           MaxCacheEvaluations, {})

SpecCompile == InitCompile /\ [][Next]_vars

\* the runs in which the hits of one key of the compiled cache are remembered
InitHits ==
  InitWith(CacheExpressions, {[t |-> 2, time |-> 3]}, {InitialTime},
           MaxCacheEvaluations, {"t"})

SpecHits == InitHits /\ [][Next]_vars

\* the runs in which the keys of the two caches are looked at
InitKeys ==
  InitWith(KeyExpressions, {[t |-> 2, time |-> 3]}, {InitialTime},
           MaxCacheEvaluations, {})

SpecKeys == InitKeys /\ [][Next]_vars

\* the runs in which the hit rate is looked at
InitRate ==
  InitWith(RateExpressions, {[t |-> 2, time |-> 3]}, {InitialTime},
           MaxRateEvaluations, {})

SpecRate == InitRate /\ [][Next]_vars

\* the runs in which the warnings of the validation are looked at
InitWarnings ==
  InitWith(WarningExpressions, {[t |-> 2, time |-> 3]}, {InitialTime},
           MaxCacheEvaluations, {})

SpecWarnings == InitWarnings /\ [][Next]_vars

(***************************************************************************)
(* Properties                                                              *)
(***************************************************************************)

\* C1: every call of evaluate, for every text and context and whatever the
\* caches and the counters hold, returns a finite number and raises no
\* exception to its caller.  (Checked under SpecThrowing.)
EvaluateReturnsFiniteNumber ==
  lastCall.op = "evaluate" =>
    /\ ~lastCall.threw
    /\ IsNumber(lastCall.value)
    /\ isFinite(lastCall.value)

\* C2: every call of evaluate that ends in failure (the text is rejected by
\* validation, the compilation fails, or a fault of the execution reaches
\* the catch block) returns 0, increments failedEvaluations by exactly one
\* and logs exactly one recoverable record of type
\* EXPRESSION_EVALUATION_ERROR.
FailureIsCountedAndLogged ==
  [][(/\ lastCall'.op = "evaluate"
      /\ stats'.totalEvaluations = stats.totalEvaluations + 1
      /\ ~lastCall'.validation.isValid \/ lastCall'.caught)
     => /\ ~lastCall'.threw
        /\ lastCall'.value = Num(0, 1)
        /\ stats'.failedEvaluations = stats.failedEvaluations + 1
        /\ Len(lastCall'.errors) = 1
        /\ lastCall'.errors[1].type = "EXPRESSION_EVALUATION_ERROR"
        /\ lastCall'.errors[1].recoverable]_vars

\* C3: from resetStats on, after N >= 1 calls of evaluate that each had a
\* valid, compilable text (compiled by the call or served from the compiled
\* cache, the same text repeated included), successfulEvaluations is N and
\* getEvaluationStats().successRate is 100.
ValidEvaluationsAllSucceed ==
  (history.compilableOnly /\ stats.totalEvaluations >= 1) =>
    /\ stats.successfulEvaluations = stats.totalEvaluations
    /\ getEvaluationStats(stats, InitialTime).successRate = Num(100, 1)

\* C4: after any sequence of validateExpression, evaluate and clearCache
\* calls, the validation cache and the compiled cache each hold at most
\* MAX_CACHE_SIZE entries.  (Checked under SpecCache, whose callers submit
\* MAX_CACHE_SIZE + 1 texts with different cache keys.)
CachesAreBounded ==
  /\ Cardinality(DOMAIN validationCache) <= MAX_CACHE_SIZE
  /\ Len(expressionCache) <= MAX_CACHE_SIZE

\* C4, its case: a call of evaluate found the compiled cache full, evicted
\* and stored, and its validation found the memo full and wiped it.
CachesOverflowed ==
  /\ lastCall.op = "evaluate"
  /\ "evict" \in Range(lastCall.steps)
  /\ Len(expressionCache) = MAX_CACHE_SIZE
  /\ DOMAIN validationCache = {lastCall.expression}

\* C5: a key enters the compiled cache only in a call of evaluate whose
\* validateExpression returned isValid = TRUE, and the key is the trimmed
\* text of that call; no callable is stored for a text that failed
\* validation.
OnlyValidatedTextsAreCached ==
  [][\A key \in CacheKeys(expressionCache') \ CacheKeys(expressionCache) :
       /\ lastCall'.op = "evaluate"
       /\ lastCall'.validation.isValid
       /\ key = createCacheKey(lastCall'.expression)]_vars

\* C5, its case: a call of evaluate stored the callable of its text in a
\* cache that held another key.
ValidatedTextWasCached ==
  /\ lastCall.op = "evaluate"
  /\ "store" \in Range(lastCall.steps)
  /\ lastCall.validation.isValid
  /\ createCacheKey(lastCall.expression) \in CacheKeys(expressionCache)
  /\ Len(expressionCache) >= 2

\* C6: for every text that contains a denied construct, here a call of
\* eval (the name eval, parenthesised or not, applied to arguments),
\* validateExpression returns isValid = FALSE, and evaluate returns 0
\* without compiling the text or storing a callable for it.
\* (Checked under SpecValidation.)
DeniedConstructsAreRejected ==
  LET CallsEval(e) ==
        LET toks == Tokenize(e)
        IN  \E i \in 1..Len(toks) :
              /\ toks[i].type = "id"
              /\ toks[i].name = "eval"
              /\ \E j \in (i + 1)..Len(toks) :
                   /\ IsOp(toks, j, {"("})
                   /\ \A k \in (i + 1)..(j - 1) : IsOp(toks, k, {")"})
  IN  /\ (lastCall.op = "validateExpression" /\ CallsEval(lastCall.expression))
           => ~lastCall.result.isValid
      /\ (lastCall.op = "evaluate" /\ CallsEval(lastCall.expression))
           => /\ ~lastCall.validation.isValid
              /\ lastCall.value = Num(0, 1)
              /\ "compile" \notin Range(lastCall.steps)
              /\ "store" \notin Range(lastCall.steps)

\* C7: two calls of validateExpression with the same text return equal
\* results (isValid, errors, warnings, complexity, functionsUsed,
\* variablesUsed), whatever calls of evaluate or clearCache and whatever
\* wipe of a full memo happen between them.  (Checked under
\* SpecValidation; history.earlier holds the first result of each text.)
ValidationIsRepeatable ==
  (lastCall.op = "validateExpression" /\ lastCall.again) =>
    lastCall.result = history.earlier[lastCall.expression]

\* C7, its case: a text validated before is validated again after the memo
\* lost it, more texts than the memo holds having been validated.
ValidatedAgainAfterWipe ==
  /\ lastCall.op = "validateExpression"
  /\ lastCall.again
  /\ ~lastCall.fromMemo
  /\ ~IsBlank(lastCall.expression)
  /\ Cardinality({e \in DOMAIN history.earlier : ~IsBlank(e)}) > MAX_CACHE_SIZE

\* C8: for every name( of a text whose name is not one of the names the
\* registry lists (names found only on the prototype chain of the registry
\* object included), validateExpression reports 'Unknown or forbidden
\* function: name' and isValid = FALSE.  (Checked under SpecValidation.)
UnlistedCallsAreRejected ==
  lastCall.op = "validateExpression" =>
    \A name \in Range(functionCalls(lastCall.expression)) \ SAFE_MATH_FUNCTIONS :
      /\ ("Unknown or forbidden function: " \o name) \in Range(lastCall.result.errors)
      /\ ~lastCall.result.isValid

\* C9: when the expression of a compiled text gives a non-finite value or
\* faults at run time, evaluate returns 0, logs exactly one recoverable
\* error record and counts the call as a failure, not as a success.
RuntimeFaultsAreFailures ==
  [][LET Faults(e, context) ==
           /\ ParseTable[e].st = "ok"
           /\ ParseTable[e].ast.node # "escape"
           /\ LET result == Eval(ParseTable[e].ast, context)
              IN  \/ result.k = "throw"
                  \/ result.k # "unsupported" /\ ~isFinite(result)
     IN  (/\ lastCall'.op = "evaluate"
          /\ stats'.totalEvaluations = stats.totalEvaluations + 1
          /\ "execute" \in Range(lastCall'.steps)
          /\ Faults(lastCall'.expression, lastCall'.context))
         => /\ lastCall'.value = Num(0, 1)
            /\ Len(lastCall'.errors) = 1
            /\ lastCall'.errors[1].recoverable
            /\ stats'.failedEvaluations = stats.failedEvaluations + 1
            /\ stats'.successfulEvaluations = stats.successfulEvaluations]_vars

\* C10: for a valid text that is the name of a variable and a context that
\* binds the name to a number, evaluate returns the number the context
\* binds it to; t and time that the context does not bind evaluate as 0.
\* (Checked under SpecContext.)
ContextBindsFreeVariables ==
  (/\ lastCall.op = "evaluate"
   /\ lastCall.expression \in UNION {DOMAIN context : context \in Contexts})
  => /\ lastCall.expression \in DOMAIN lastCall.context
          => lastCall.value = Num(lastCall.context[lastCall.expression], 1)
     /\ lastCall.expression \in {"t", "time"} \ DOMAIN lastCall.context
          => lastCall.value = Num(0, 1)


\* C11: every name of the registry that a validated text uses is, in the
\* text compileExpression hands to new Function, a reference that resolves
\* when the function is called: it is not left as an identifier nothing
\* binds, and it is not rewritten into a member Math does not have.
\* (Checked under SpecRegistry.)
RegistryNamesAreBound ==
  LET Names(toks, positions) == {toks[j].name : j \in positions}
      Identifiers(toks) == {j \in 1..Len(toks) : toks[j].type = "id"}
      Members(toks) == {j \in Identifiers(toks) : j > 1 /\ IsOp(toks, j - 1, {"."})}
      Used(toks) == Names(toks, Identifiers(toks)) \cap SAFE_MATH_FUNCTIONS
      Unbound(toks, context) ==
        Names(toks, {j \in Identifiers(toks) \ Members(toks) :
                       ResolveIdentifier(toks[j].name, context) = Thrown})
      MissingFromMath(toks) ==
        Names(toks, {j \in Members(toks) :
                       /\ j > 2
                       /\ toks[j - 2] = [type |-> "id", name |-> "Math", next |-> toks[j - 2].next]
                       /\ GetMember(MathNamespace, toks[j].name) = Undefined})
  IN  lastCall.op = "evaluate" /\ lastCall.validation.isValid =>
        \A name \in Used(Tokenize(lastCall.expression)) :
          /\ name \notin Unbound(Tokenize(safeExpression(lastCall.expression)),
                                 lastCall.context)
          /\ name \notin MissingFromMath(Tokenize(safeExpression(lastCall.expression)))
\* C12: for every empty or whitespace-only text, validateExpression (called
\* directly or by evaluate) returns isValid = FALSE, errors exactly
\* <<"Expression cannot be empty">>, no warnings, complexity 0 and empty
\* functionsUsed and variablesUsed: no check has touched the result.
\* (Checked under SpecSyntax.)
BlankTextIsRejectedUnchecked ==
  LET Blank(e) == \A i \in 1..Len(e) : Ch(e, i) \in {" ", "\t", "\n"}
      rejected == [isValid |-> FALSE, errors |-> <<"Expression cannot be empty">>,
                   warnings |-> <<>>, complexity |-> 0,
                   functionsUsed |-> <<>>, variablesUsed |-> <<>>]
  IN  /\ lastCall.op = "validateExpression" /\ Blank(lastCall.expression)
          => lastCall.result = rejected
      /\ lastCall.op = "evaluate" /\ Blank(lastCall.expression)
          => lastCall.validation = rejected

\* C12 witness: validateExpression has returned for a whitespace-only text
\* long enough for analyzeComplexity to score it above 0.
BlankTextWasValidated ==
  /\ lastCall.op = "validateExpression"
  /\ lastCall.expression = "     "
  /\ ~lastCall.result.isValid
  /\ RoundTenths(ComplexityTenths(lastCall.expression)) > 0

\* C13: for every non-empty text, validateExpression reports the error
\* "Unbalanced parentheses" exactly when some prefix of the text holds more
\* ")" than "(" or the totals of "(" and ")" differ, and then isValid is
\* FALSE.  (Checked under SpecSyntax.)
UnbalancedIsReportedExactly ==
  LET Opening(e, i) == Cardinality({j \in 1..i : Ch(e, j) = "("})
      Closing(e, i) == Cardinality({j \in 1..i : Ch(e, j) = ")"})
      Unbalanced(e) ==
        \/ \E i \in 1..Len(e) : Closing(e, i) > Opening(e, i)
        \/ Opening(e, Len(e)) # Closing(e, Len(e))
      Reported(result) == "Unbalanced parentheses" \in Range(result.errors)
  IN  lastCall.op = "validateExpression" /\ lastCall.expression # "" =>
        /\ Reported(lastCall.result) <=> Unbalanced(lastCall.expression)
        /\ Reported(lastCall.result) => ~lastCall.result.isValid

\* C13 witness: validateExpression has reported a text whose totals of "("
\* and ")" agree and whose count goes negative on the way.
NegativeCountWasReported ==
  /\ lastCall.op = "validateExpression"
  /\ lastCall.expression = ")t("
  /\ "Unbalanced parentheses" \in Range(lastCall.result.errors)

ClearAndResetTouchOnlyTheirOwn ==
  [][ /\ lastCall'.op = "clearCache" =>
           /\ DOMAIN validationCache' = {}
           /\ Len(expressionCache') = 0
           /\ stats' = stats
      /\ lastCall'.op = "resetStats" =>
           /\ stats' = [totalEvaluations |-> 0, successfulEvaluations |-> 0,
                        failedEvaluations |-> 0, averageEvaluationTime |-> Num(0, 1),
                        cacheHitRate |-> Num(0, 1), lastEvaluationTime |-> 0]
           /\ validationCache' = validationCache
           /\ expressionCache' = expressionCache
      /\ lastCall'.op # "resetStats" =>
           /\ stats'.totalEvaluations >= stats.totalEvaluations
           /\ stats'.successfulEvaluations >= stats.successfulEvaluations
           /\ stats'.failedEvaluations >= stats.failedEvaluations ]_vars

\* C15 witness: clearCache has returned after calls of evaluate that left
\* the three counters above zero.
ClearedWithCountersKept ==
  /\ lastCall.op = "clearCache"
  /\ stats.totalEvaluations = 2
  /\ stats.successfulEvaluations = 1
  /\ stats.failedEvaluations = 1
  /\ expressionCache = <<>>
\* C16: a function debounced with the default options and called one or
\* more times executes the wrapped function once the delay has passed since
\* the last call, unless cancel was called after it: exactly one execution
\* follows the last call, at the time of that call plus the delay.
\* (Checked under SpecDebounce.)
DefaultDebounceRunsAfterBurst ==
  LET calls   == {i \in 1..Len(trace) : trace[i].e = "call"}
      last    == SetMax(calls)
      after   == {i \in (last + 1)..Len(trace) : trace[i].e = "execute"}
      dropped == \E i \in (last + 1)..Len(trace) : trace[i].e = "cancel"
  IN  /\ wrapper.kind = "debounce"
      /\ wrapper.options = NoOptions
      /\ calls # {}
      /\ ~dropped
      /\ clock > trace[last].time + wrapper.delay
      => /\ Cardinality(after) = 1
         /\ \A i \in after : trace[i].time = trace[last].time + wrapper.delay

\* C17: whatever the calls, the runs of the trailing timer and the cancels,
\* two consecutive executions of the function a throttle wraps are at least
\* delay milliseconds apart.  (Checked under SpecThrottle.)
ThrottledRunsAreSpaced ==
  LET runs == SelectSeq(trace, LAMBDA event : event.e = "execute")
  IN  wrapper.kind = "throttle" =>
        \A i \in 1..(Len(runs) - 1) : runs[i + 1].time - runs[i].time >= wrapper.delay
\* C18: within every call of evaluate the steps come in the order validate,
\* lookup in the compiled cache, compile (with its eviction and store),
\* execute, update of the stats: execution only after a successful
\* validation of the same call, a compilation on a miss only, and the update
\* of the stats after the execution, on a hit as on a miss.
\* (Checked under Spec.)
EvaluateStepsAreOrdered ==
  [][ LET steps == lastCall'.steps
          Rank(step) == CASE step = "validate"    -> 1
                          [] step = "lookup"      -> 2
                          [] step = "compile"     -> 3
                          [] step = "evict"       -> 4
                          [] step = "store"       -> 5
                          [] step = "execute"     -> 6
                          [] step = "updateStats" -> 7
          hit == createCacheKey(lastCall'.expression) \in CacheKeys(expressionCache)
      IN  lastCall'.op = "evaluate" =>
            /\ \A i, j \in 1..Len(steps) : i < j => Rank(steps[i]) < Rank(steps[j])
            /\ "execute" \in Range(steps) =>
                  steps[1] = "validate" /\ lastCall'.validation.isValid
            /\ "compile" \in Range(steps) => ~hit ]_vars

\* C19: in every state between two calls, totalEvaluations is the sum of
\* successfulEvaluations and failedEvaluations.  (Checked under Spec.)
EveryCallIsCountedOnce ==
  stats.totalEvaluations = stats.successfulEvaluations + stats.failedEvaluations

\* C20: a call of evaluate for a text that passes validation and does not
\* compile returns 0 and leaves the compiled cache exactly as it was, with
\* no entry added and none evicted, also when the cache is full.
\* (Checked under SpecCompile.)
FailedCompilationLeavesCache ==
  [][ /\ lastCall'.op = "evaluate"
      /\ lastCall'.validation.isValid
      /\ ParseTable[lastCall'.expression].st = "syntax"
      => /\ lastCall'.value = Num(0, 1)
         /\ ~lastCall'.threw
         /\ expressionCache' = expressionCache ]_vars

\* C20 witness: evaluate has returned 0 for the valid text "t +", whose
\* compilation failed, with the compiled cache full.
CompilationFailedAtCapacity ==
  /\ lastCall.op = "evaluate"
  /\ lastCall.expression = "t +"
  /\ lastCall.validation.isValid
  /\ lastCall.steps = <<"validate", "lookup", "compile">>
  /\ lastCall.value = Num(0, 1)
  /\ Len(expressionCache) = MAX_CACHE_SIZE

\* C21: when a miss of evaluate stores into a compiled cache that holds
\* MAX_CACHE_SIZE entries, exactly the floor(0.3 * MAX_CACHE_SIZE) keys
\* inserted first are removed, every key inserted later is kept in its
\* order, and the new key is added last, so that the cache then holds
\* MAX_CACHE_SIZE - floor(0.3 * MAX_CACHE_SIZE) + 1 entries.  (Checked under
\* SpecCache.)
EvictionRemovesTheOldest ==
  [][LET removed == (3 * MAX_CACHE_SIZE) \div 10
         before  == expressionCache
         after   == expressionCache'
     IN  (/\ lastCall'.op = "evaluate"
          /\ Len(before) = MAX_CACHE_SIZE
          /\ "store" \in Range(lastCall'.steps))
         => /\ Len(after) = MAX_CACHE_SIZE - removed + 1
            /\ \A i \in 1..(MAX_CACHE_SIZE - removed) : after[i] = before[i + removed]
            /\ after[Len(after)].key = Trim(lastCall'.expression)
            /\ \A i \in 1..removed : before[i].key \notin CacheKeys(after)]_vars

\* C21, its case: a miss has just evicted and stored, and the cache holds
\* MAX_CACHE_SIZE - floor(0.3 * MAX_CACHE_SIZE) + 1 entries, the new key last.
EvictedAndStored ==
  /\ lastCall.op = "evaluate"
  /\ "evict" \in Range(lastCall.steps)
  /\ "store" \in Range(lastCall.steps)
  /\ Len(expressionCache) = MAX_CACHE_SIZE - (3 * MAX_CACHE_SIZE) \div 10 + 1
  /\ expressionCache[Len(expressionCache)].key = Trim(lastCall.expression)

\* C22: an evaluate served from the compiled cache leaves the keys of the
\* compiled cache and their insertion order as they were, and an eviction
\* removes entries in the order of their insertion whatever was hit: when
\* an entry is removed, every entry inserted before it is removed, too.  An
\* old entry that is hit is therefore still evicted before a newer entry
\* that never is.  (Checked under SpecHits.)
HitsDoNotReorder ==
  [][lastCall'.op = "evaluate" =>
       /\ ("lookup" \in Range(lastCall'.steps) /\ "compile" \notin Range(lastCall'.steps))
            => expressionCache' = expressionCache
       /\ \A i, j \in 1..Len(expressionCache) :
            (i < j /\ expressionCache[j].key \notin CacheKeys(expressionCache'))
              => expressionCache[i].key \notin CacheKeys(expressionCache')]_vars

\* C22, its case: the last evaluate evicted an entry a call had been served
\* from, while an entry inserted later and never hit is still cached.
OldHitEntryWasEvicted ==
  /\ lastCall.op = "evaluate"
  /\ "evict" \in Range(lastCall.steps)
  /\ history.hits \ CacheKeys(expressionCache) # {}
  /\ CacheKeys(expressionCache) \ (history.hits \cup {Trim(lastCall.expression)}) # {}

CachesShareTrimmedKeys ==
  /\ \A e1, e2 \in DOMAIN validationCache : Trim(e1) = Trim(e2) => e1 = e2
  /\ \A i, j \in 1..Len(expressionCache) :
       Trim(expressionCache[i].key) = Trim(expressionCache[j].key) => i = j
  /\ \A e \in {"t*2", "t * 2"} :
       /\ (lastCall.op = "validateExpression" /\ lastCall.expression = e)
            => e \in DOMAIN validationCache
       /\ (lastCall.op = "evaluate" /\ lastCall.expression = e)
            => e \in CacheKeys(expressionCache)

\* C25: every call of evaluate, whether it succeeds or fails (rejected by
\* validation, failed compilation, fault of the execution), applies exactly
\* one update of the exponential moving average with alpha = 0.1 to
\* averageEvaluationTime and sets lastEvaluationTime to the time of the
\* call.
EveryCallUpdatesAverage ==
  [][(lastCall'.op = "evaluate" /\ ~lastCall'.threw)
     => /\ \E elapsed \in ElapsedTimes :
             stats'.averageEvaluationTime =
               NumAdd(NumMul(stats.averageEvaluationTime, Num(9, 10)),
                      NumMul(Num(elapsed, 1), Num(1, 10)))
        /\ stats'.lastEvaluationTime \in inputs.times]_vars

\* C26: after each call of evaluate that reaches the lookup in the compiled
\* cache, cacheHitRate is
\* ((previousRate / 100 * previousTotal) + h) / newTotal * 100, where
\* previousTotal is totalEvaluations before the call, newTotal is
\* previousTotal + 1, and h is 1 for a hit and 0 for a miss.  (Checked under
\* SpecRate.)
HitRateFoldsPreviousTotal ==
  [][(lastCall'.op = "evaluate" /\ "lookup" \in Range(lastCall'.steps))
     => LET previousRate  == stats.cacheHitRate
            previousTotal == Num(stats.totalEvaluations, 1)
            newTotal      == Num(stats.totalEvaluations + 1, 1)
            h == IF "compile" \in Range(lastCall'.steps) THEN Num(0, 1) ELSE Num(1, 1)
        IN  stats'.cacheHitRate =
              NumMul(NumDiv(NumAdd(NumMul(NumDiv(previousRate, Num(100, 1)),
                                          previousTotal), h),
                            newTotal),
                     Num(100, 1))]_vars

\* C27: in every reachable state, after any sequence of evaluate calls that
\* mixes hits and misses, cacheHitRate is at least 0 and at most 100.
\* (Checked under SpecRate.)
HitRateIsAPercentage ==
  /\ stats.cacheHitRate.k = "num"
  /\ ~NumLess(stats.cacheHitRate, Num(0, 1))
  /\ ~NumLess(Num(100, 1), stats.cacheHitRate)

\* C28: for every text, validateExpression returns isValid = FALSE exactly
\* when its errors are not empty; findings that are warnings only (the
\* heuristic syntax patterns, a complexity above 100 or above 500) leave
\* isValid TRUE, and evaluate of such a text is not rejected: it goes on to
\* the lookup, compiles on a miss and executes what it compiled or found.
\* (Checked under SpecWarnings.)
WarningsDoNotBlock ==
  LET Consistent(result) == result.isValid <=> result.errors = <<>>
  IN  /\ \A e \in DOMAIN validationCache : Consistent(validationCache[e])
      /\ lastCall.op = "validateExpression" => Consistent(lastCall.result)
      /\ lastCall.op = "evaluate" =>
           /\ Consistent(lastCall.validation)
           /\ lastCall.validation.errors = <<>> =>
                /\ "lookup" \in Range(lastCall.steps)
                /\ \/ "execute" \in Range(lastCall.steps)
                   \/ lastCall.steps[Len(lastCall.steps)] = "compile"
                /\ \A i \in 1..Len(lastCall.errors) :
                     ~LiteralAt(lastCall.errors[i].cause, 1, "Invalid expression")

\* C28, its case: evaluate compiled and executed a text whose validation
\* gave the three warnings and no error.
WarnedTextWasExecuted ==
  /\ lastCall.op = "evaluate"
  /\ lastCall.validation.isValid
  /\ lastCall.validation.complexity > 500
  /\ lastCall.validation.warnings =
       << "Potentially invalid syntax detected",
          "High complexity expression may impact performance",
          "Extremely complex expression may cause significant performance issues" >>
  /\ "compile" \in Range(lastCall.steps)
  /\ "execute" \in Range(lastCall.steps)

\* C29: for every text and context, evaluate returns the same value whether
\* the validation result and the callable come from the caches or are
\* computed by the call: the value is the one a call with empty caches and
\* zeroed stats returns, whatever the caches hold, whatever was evicted
\* before and whatever the stats are.  (Checked under SpecKeys.)
ValueIsIndependentOfCaches ==
  lastCall.op = "evaluate" =>
    \A elapsed \in ElapsedTimes : \A now \in inputs.times :
      LET Same(fresh) == lastCall.value = fresh.value /\ lastCall.threw = fresh.threw
      IN  Same(evaluate(EmptyValidationCache, <<>>, ZeroStats, lastCall.expression,
                        lastCall.context, elapsed, now))

\* C29, its case: the call was served by a callable that an earlier call
\* compiled from another text with the same key.
ServedFromAnotherText ==
  /\ lastCall.op = "evaluate"
  /\ "compile" \notin Range(lastCall.steps)
  /\ "execute" \in Range(lastCall.steps)
  /\ CacheGet(expressionCache, Trim(lastCall.expression)).src # lastCall.expression

\* C30: if calls of evaluate interleave at their steps (size test, eviction,
\* insertion) a state is reachable in which the compiled cache holds more
\* than MAX_CACHE_SIZE entries (the witness below); as long as the calls run
\* one after another, each to its end, the compiled cache holds at most
\* MAX_CACHE_SIZE entries.  (Checked under SpecInterleaved.)
AtomicCallsKeepTheBound ==
  ~pendingCalls.overlapped => Len(expressionCache) <= MAX_CACHE_SIZE

\* C30, its case: calls have interleaved and the compiled cache holds more
\* than MAX_CACHE_SIZE entries.
InterleavedCallsOverflowed ==
  /\ pendingCalls.overlapped
  /\ Len(expressionCache) > MAX_CACHE_SIZE

=============================================================================
